---- MODULE Spec2Model ----
(***************************************************************************)
(* A model of the CHIP-8 interpreter core (crate chip8: memory.rs,         *)
(* instruction.rs, screen.rs, cpu.rs).  The machine is the struct Chip8;   *)
(* its operations are Chip8::new, Chip8::cycle and Chip8::update_timers.   *)
(*                                                                         *)
(* Representation.  The 4096-byte array of Chip8Memory is kept as a        *)
(* function from the addresses holding a nonzero byte to that byte (every  *)
(* other address reads 0, as in the zero-filled array).  The 64x32 array   *)
(* of Chip8Screen is kept as the set of row-major indices whose pixel is   *)
(* true.  A Rust panic is the result kind "Panic"; the state a panic       *)
(* leaves behind is the state at the point of the panic.                   *)
(***************************************************************************)
EXTENDS Integers, Sequences, FiniteSets, TLC

\* ------------------------------------------------------------------------
\* Program constants

CHIP8_MEMORY_SIZE_BYTES == 4096

SPRITES_OFFSET_BYTES == 0

PROGRAM_OFFSET_BYTES == 512

STACK_SIZE == 12

\* app.rs: `for _ in 0..30`
CYCLES_PER_STEP == 30

SCREEN_WIDTH_PIXELS == 64

SCREEN_HEIGHT_PIXELS == 32

DEFAULT_SPRITES ==
  << 240, 144, 144, 144, 240,    \* 0
      32,  96,  32,  32, 112,    \* 1
     240,  16, 240, 128, 240,    \* 2
     240,  16, 240,  16, 240,    \* 3
     144, 144, 240,  16,  16,    \* 4
     240, 128, 240,  16, 240,    \* 5
     240, 128, 240, 144, 240,    \* 6
     240,  16,  32,  64,  64,    \* 7
     240, 144, 240, 144, 240,    \* 8
     240, 144, 240,  16, 240,    \* 9
     240, 144, 240, 144, 144,    \* A
     224, 144, 224, 144, 224,    \* B
     240, 128, 128, 128, 240,    \* C
     224, 144, 144, 144, 224,    \* D
     240, 128, 240, 128, 240,    \* E
     240, 128, 240, 128, 128 >>  \* F

\* ------------------------------------------------------------------------
\* Bounds of the model

\* general registers used by the generated programs: 0..MaxReg and VF
MaxReg == 1

\* byte values used by the generated programs: 0..MaxSmall, 127, 128 and
\* 255-MaxSmall..255
MaxSmall == 1

\* keys that may be down in a snapshot: 15, 8, ... (MaxKey + 1 of them)
MaxKey == 1

\* deepest chain of nested Call instructions in a generated program
MaxDepth == 13

\* update_timers calls counted after a SetSound
MaxTicks == 6

\* steps of 1/60 s that one call of App::update may have to catch up with
MaxSteps == 2

\* ------------------------------------------------------------------------
\* Unsigned integer helpers

Min(S) == CHOOSE m \in S : \A k \in S : m <= k

RECURSIVE Pow2(_)
Pow2(k) == IF k = 0 THEN 1 ELSE 2 * Pow2(k - 1)

\* bit k (0 = least significant) of a
Bit(a, k) == (a \div Pow2(k)) % 2

RECURSIVE BitOp(_, _, _, _)
\* bitwise combination of the low `w` bits of a and b; f is "and", "or", "xor"
BitOp(f, a, b, w) ==
  IF w = 0 THEN 0
  ELSE LET x == a % 2
           y == b % 2
           z == CASE f = "and" -> IF x = 1 /\ y = 1 THEN 1 ELSE 0
                  [] f = "or"  -> IF x = 1 \/ y = 1 THEN 1 ELSE 0
                  [] OTHER     -> IF x # y THEN 1 ELSE 0
       IN  z + 2 * BitOp(f, a \div 2, b \div 2, w - 1)

\* ------------------------------------------------------------------------
\* memory.rs

\* Chip8Memory::get: None.unwrap() panics when index >= 4096
Chip8Memory_get(memory, index) ==
  IF index >= CHIP8_MEMORY_SIZE_BYTES
    THEN [panic |-> TRUE, value |-> 0]
    ELSE [panic |-> FALSE,
          value |-> IF index \in DOMAIN memory THEN memory[index] ELSE 0]

\* the array with one byte replaced (zero bytes are not stored)
WriteByte(memory, index, value) ==
  IF value = 0
    THEN [a \in DOMAIN memory \ {index} |-> memory[a]]
    ELSE [a \in DOMAIN memory \cup {index} |->
            IF a = index THEN value ELSE memory[a]]

\* Chip8Memory::set: None.unwrap() panics when index >= 4096
Chip8Memory_set(memory, index, value) ==
  IF index >= CHIP8_MEMORY_SIZE_BYTES
    THEN [panic |-> TRUE, memory |-> memory]
    ELSE [panic |-> FALSE, memory |-> WriteByte(memory, index, value)]

\* Chip8Memory::get_bytes: the slice memory[index .. index + len]
Chip8Memory_get_bytes(memory, index, len) ==
  IF index + len > CHIP8_MEMORY_SIZE_BYTES
    THEN [panic |-> TRUE, bytes |-> << >>]
    ELSE [panic |-> FALSE,
          bytes |-> [k \in 1..len |-> Chip8Memory_get(memory, index + k - 1).value]]

\* a faulty variant of Chip8Memory::load_bytes: the length test rejects a
\* slice that fits exactly
load_bytes_RejectsExactFit(memory, offset, bytes) ==
  IF offset >= CHIP8_MEMORY_SIZE_BYTES
    THEN [panic |-> TRUE, memory |-> memory]
  ELSE IF Len(bytes) >= CHIP8_MEMORY_SIZE_BYTES - offset
    THEN [panic |-> TRUE, memory |-> memory]
  ELSE LET first == 512
           last == 512 + Len(bytes) - 1
           byte(a) == IF a >= first /\ a <= last THEN bytes[a - first + 1]
                      ELSE memory[a]
       IN  [panic |-> FALSE,
            memory |-> [a \in {b \in DOMAIN memory \cup (first..last) : byte(b) # 0}
                          |-> byte(a)]]

\* Chip8Memory::load_bytes: the loop writes bytes[i] to index i + 0x200
\* whatever `offset` is
load_bytes(memory, offset, bytes) ==
  IF offset >= CHIP8_MEMORY_SIZE_BYTES
    THEN [panic |-> TRUE, memory |-> memory]
  ELSE IF Len(bytes) > CHIP8_MEMORY_SIZE_BYTES - offset
    THEN [panic |-> TRUE, memory |-> memory]
  ELSE LET first == 512
           last == 512 + Len(bytes) - 1
           byte(a) == IF a >= first /\ a <= last THEN bytes[a - first + 1]
                      ELSE memory[a]
       IN  [panic |-> FALSE,
            memory |-> [a \in {b \in DOMAIN memory \cup (first..last) : byte(b) # 0}
                          |-> byte(a)]]

\* Chip8Memory::new, up to the first load_bytes: the zero-filled array with
\* the default sprites loaded
WithSprites ==
  load_bytes([a \in {} |-> 0], SPRITES_OFFSET_BYTES, DEFAULT_SPRITES)

\* Chip8Memory::new
Chip8Memory_new(program) ==
  LET loaded == load_bytes(WithSprites.memory, PROGRAM_OFFSET_BYTES, program)
  IN  [panic |-> WithSprites.panic \/ loaded.panic, memory |-> loaded.memory]

\* ------------------------------------------------------------------------
\* screen.rs

\* Chip8Screen::new / Chip8Screen::clear: every pixel false
clear == {}

\* calc_index: panics when the coordinate is outside the screen
calc_index(x, y) ==
  IF x >= SCREEN_WIDTH_PIXELS \/ y >= SCREEN_HEIGHT_PIXELS
    THEN [panic |-> TRUE, index |-> 0]
    ELSE [panic |-> FALSE, index |-> y * SCREEN_WIDTH_PIXELS + x]

\* Chip8Screen::get_pixel
get_pixel(screen, x, y) ==
  LET at == calc_index(x, y)
  IN  [panic |-> at.panic, value |-> (~at.panic) /\ at.index \in screen]

\* Chip8Screen::set_pixel
set_pixel(screen, x, y, value) ==
  LET at == calc_index(x, y)
  IN  [panic |-> at.panic,
       screen |-> IF at.panic THEN screen
                  ELSE IF value THEN screen \cup {at.index}
                  ELSE screen \ {at.index}]

\* the sprite bit drawn at column ix of row iy: sprite[iy] & (0b1000_0000 >> ix)
sprite_pixel(sprite, ix, iy) == Bit(sprite[iy + 1], 7 - ix) = 1

\* Chip8Screen::draw_sprite.  overflow_checks is the build's setting for
\* integer overflow: the usize subtraction of the height computation panics
\* when it is on and wraps (then truncated by `as u8`) when it is off.
\* The nested loop visits column ix = 0 first, rows top to bottom, and stops
\* at the first get_pixel outside the screen or sprite row outside the slice.
draw_sprite(screen, x_in, y_in, sprite, overflow_checks) ==
  IF Len(sprite) = 0
    THEN [panic |-> FALSE, screen |-> screen, collision |-> FALSE]
  ELSE
    LET x == x_in % SCREEN_WIDTH_PIXELS
        y == y_in % SCREEN_HEIGHT_PIXELS
        sprite_width == 8
        sprite_height == Len(sprite)
        area_width ==
          IF x + sprite_width > SCREEN_WIDTH_PIXELS
            THEN (sprite_width - ((x + sprite_width) % SCREEN_WIDTH_PIXELS)) % 256
            ELSE sprite_width
        clipped == y + sprite_height > SCREEN_HEIGHT_PIXELS
        over == (y + sprite_height) % SCREEN_HEIGHT_PIXELS
        underflow == clipped /\ over > sprite_width
        area_height ==
          IF clipped THEN (sprite_width - over) % 256 ELSE sprite_height
        \* rows that can be visited before an index leaves the screen or slice
        safe_rows == Min({SCREEN_HEIGHT_PIXELS - y, sprite_height})
        aborts == area_height > safe_rows
        visited ==
          IF aborts THEN {<<0, iy>> : iy \in 0..(safe_rows - 1)}
          ELSE (0..(area_width - 1)) \X (0..(area_height - 1))
        lit == {calc_index(x + p[1], y + p[2]).index :
                  p \in {q \in visited : sprite_pixel(sprite, q[1], q[2])}}
    IN  IF underflow /\ overflow_checks
          THEN [panic |-> TRUE, screen |-> screen, collision |-> FALSE]
          ELSE [panic |-> aborts,
                screen |-> (screen \ lit) \cup (lit \ screen),
                collision |-> (lit \cap screen) # {}]

\* ------------------------------------------------------------------------
\* instruction.rs

\* Result<Inst, DecodeError>
DecodeOk(inst) == [ok |-> TRUE, inst |-> inst, err |-> [kind |-> "none"]]

UnknownInstruction(inst) ==
  [ok |-> FALSE, inst |-> [op |-> "none"],
   err |-> [kind |-> "UnknownInstruction", inst |-> inst]]

\* a faulty variant of decode: vy is taken from the low nibble
decode_LowNibbleAsVy(inst) ==
  LET vx == (inst \div 256) % 16
      vy == inst % 16
      n == inst % 16
      nn == inst % 256
      nnn == inst % 4096
      family == inst \div 4096
  IN  CASE family = 0 ->
             IF inst = 224 THEN DecodeOk([op |-> "Clear"])
             ELSE IF inst = 238 THEN DecodeOk([op |-> "Return"])
             ELSE DecodeOk([op |-> "Exe", nnn |-> nnn])
        [] family = 1 -> DecodeOk([op |-> "Jump", nnn |-> nnn])
        [] family = 2 -> DecodeOk([op |-> "Call", nnn |-> nnn])
        [] family = 3 -> DecodeOk([op |-> "SkipEqualValue", vx |-> vx, nn |-> nn])
        [] family = 4 -> DecodeOk([op |-> "SkipNotEqualValue", vx |-> vx, nn |-> nn])
        [] family = 5 ->
             IF n = 0 THEN DecodeOk([op |-> "SkipEqualRegister", vx |-> vx, vy |-> vy])
             ELSE UnknownInstruction(inst)
        [] family = 6 -> DecodeOk([op |-> "LoadValue", vx |-> vx, nn |-> nn])
        [] family = 7 -> DecodeOk([op |-> "AddValue", vx |-> vx, nn |-> nn])
        [] family = 8 ->
             CASE n = 0 -> DecodeOk([op |-> "LoadRegister", vx |-> vx, vy |-> vy])
               [] n = 1 -> DecodeOk([op |-> "Or", vx |-> vx, vy |-> vy])
               [] n = 2 -> DecodeOk([op |-> "And", vx |-> vx, vy |-> vy])
               [] n = 3 -> DecodeOk([op |-> "Xor", vx |-> vx, vy |-> vy])
               [] n = 4 -> DecodeOk([op |-> "AddRegister", vx |-> vx, vy |-> vy])
               [] n = 5 -> DecodeOk([op |-> "SubRegisterXY", vx |-> vx, vy |-> vy])
               [] n = 6 -> DecodeOk([op |-> "ShiftRight", vx |-> vx, vy |-> vy])
               [] n = 7 -> DecodeOk([op |-> "SubRegisterYX", vx |-> vx, vy |-> vy])
               [] n = 14 -> DecodeOk([op |-> "ShiftLeft", vx |-> vx, vy |-> vy])
               [] OTHER -> UnknownInstruction(inst)
        [] family = 9 -> DecodeOk([op |-> "SkipNotEqualRegister", vx |-> vx, vy |-> vy])
        [] family = 10 -> DecodeOk([op |-> "LoadIntoI", nnn |-> nnn])
        [] family = 11 -> DecodeOk([op |-> "JumpAdd", nnn |-> nnn])
        [] family = 12 -> DecodeOk([op |-> "LoadRandom", vx |-> vx, nn |-> nn])
        [] family = 13 -> DecodeOk([op |-> "DrawSprite", vx |-> vx, vy |-> vy, n |-> n])
        [] family = 14 ->
             CASE nn = 158 -> DecodeOk([op |-> "SkipIfKey", vx |-> vx])
               [] nn = 161 -> DecodeOk([op |-> "SkipIfNotKey", vx |-> vx])
               [] OTHER -> UnknownInstruction(inst)
        [] OTHER ->
             CASE nn = 7 -> DecodeOk([op |-> "LoadDelay", vx |-> vx])
               [] nn = 10 -> DecodeOk([op |-> "WaitForKey", vx |-> vx])
               [] nn = 21 -> DecodeOk([op |-> "SetDelay", vx |-> vx])
               [] nn = 24 -> DecodeOk([op |-> "SetSound", vx |-> vx])
               [] nn = 30 -> DecodeOk([op |-> "AddToI", vx |-> vx])
               [] nn = 41 -> DecodeOk([op |-> "LoadDigitSpriteAddrIntoI", vx |-> vx])
               [] nn = 51 -> DecodeOk([op |-> "StoreBCD", vx |-> vx])
               [] nn = 85 -> DecodeOk([op |-> "StoreRegisters", vx |-> vx])
               [] nn = 101 -> DecodeOk([op |-> "LoadRegisters", vx |-> vx])
               [] OTHER -> UnknownInstruction(inst)

\* decode
decode(inst) ==
  LET vx == (inst \div 256) % 16
      vy == (inst \div 16) % 16
      n == inst % 16
      nn == inst % 256
      nnn == inst % 4096
      family == inst \div 4096
  IN  CASE family = 0 ->
             IF inst = 224 THEN DecodeOk([op |-> "Clear"])
             ELSE IF inst = 238 THEN DecodeOk([op |-> "Return"])
             ELSE DecodeOk([op |-> "Exe", nnn |-> nnn])
        [] family = 1 -> DecodeOk([op |-> "Jump", nnn |-> nnn])
        [] family = 2 -> DecodeOk([op |-> "Call", nnn |-> nnn])
        [] family = 3 -> DecodeOk([op |-> "SkipEqualValue", vx |-> vx, nn |-> nn])
        [] family = 4 -> DecodeOk([op |-> "SkipNotEqualValue", vx |-> vx, nn |-> nn])
        [] family = 5 ->
             IF n = 0 THEN DecodeOk([op |-> "SkipEqualRegister", vx |-> vx, vy |-> vy])
             ELSE UnknownInstruction(inst)
        [] family = 6 -> DecodeOk([op |-> "LoadValue", vx |-> vx, nn |-> nn])
        [] family = 7 -> DecodeOk([op |-> "AddValue", vx |-> vx, nn |-> nn])
        [] family = 8 ->
             CASE n = 0 -> DecodeOk([op |-> "LoadRegister", vx |-> vx, vy |-> vy])
               [] n = 1 -> DecodeOk([op |-> "Or", vx |-> vx, vy |-> vy])
               [] n = 2 -> DecodeOk([op |-> "And", vx |-> vx, vy |-> vy])
               [] n = 3 -> DecodeOk([op |-> "Xor", vx |-> vx, vy |-> vy])
               [] n = 4 -> DecodeOk([op |-> "AddRegister", vx |-> vx, vy |-> vy])
               [] n = 5 -> DecodeOk([op |-> "SubRegisterXY", vx |-> vx, vy |-> vy])
               [] n = 6 -> DecodeOk([op |-> "ShiftRight", vx |-> vx, vy |-> vy])
               [] n = 7 -> DecodeOk([op |-> "SubRegisterYX", vx |-> vx, vy |-> vy])
               [] n = 14 -> DecodeOk([op |-> "ShiftLeft", vx |-> vx, vy |-> vy])
               [] OTHER -> UnknownInstruction(inst)
        [] family = 9 -> DecodeOk([op |-> "SkipNotEqualRegister", vx |-> vx, vy |-> vy])
        [] family = 10 -> DecodeOk([op |-> "LoadIntoI", nnn |-> nnn])
        [] family = 11 -> DecodeOk([op |-> "JumpAdd", nnn |-> nnn])
        [] family = 12 -> DecodeOk([op |-> "LoadRandom", vx |-> vx, nn |-> nn])
        [] family = 13 -> DecodeOk([op |-> "DrawSprite", vx |-> vx, vy |-> vy, n |-> n])
        [] family = 14 ->
             CASE nn = 158 -> DecodeOk([op |-> "SkipIfKey", vx |-> vx])
               [] nn = 161 -> DecodeOk([op |-> "SkipIfNotKey", vx |-> vx])
               [] OTHER -> UnknownInstruction(inst)
        [] OTHER ->
             CASE nn = 7 -> DecodeOk([op |-> "LoadDelay", vx |-> vx])
               [] nn = 10 -> DecodeOk([op |-> "WaitForKey", vx |-> vx])
               [] nn = 21 -> DecodeOk([op |-> "SetDelay", vx |-> vx])
               [] nn = 24 -> DecodeOk([op |-> "SetSound", vx |-> vx])
               [] nn = 30 -> DecodeOk([op |-> "AddToI", vx |-> vx])
               [] nn = 41 -> DecodeOk([op |-> "LoadDigitSpriteAddrIntoI", vx |-> vx])
               [] nn = 51 -> DecodeOk([op |-> "StoreBCD", vx |-> vx])
               [] nn = 85 -> DecodeOk([op |-> "StoreRegisters", vx |-> vx])
               [] nn = 101 -> DecodeOk([op |-> "LoadRegisters", vx |-> vx])
               [] OTHER -> UnknownInstruction(inst)

\* ------------------------------------------------------------------------
\* cpu.rs: the arms of the match in Chip8::execute_instruction.
\* Each arm yields the machine after the arm, how the arm ended ("Done",
\* "Err" with the ExecuteError returned, or "Panic") and the two flags
\* increment_pc and skip_next_instruction.

NoError == [kind |-> "none"]

Done(self) ==
  [self |-> self, end |-> "Done", err |-> NoError,
   increment_pc |-> TRUE, skip_next_instruction |-> FALSE]

NoIncrement(self) ==
  [self |-> self, end |-> "Done", err |-> NoError,
   increment_pc |-> FALSE, skip_next_instruction |-> FALSE]

Skip(self, skip) ==
  [self |-> self, end |-> "Done", err |-> NoError,
   increment_pc |-> TRUE, skip_next_instruction |-> skip]

ReturnErr(self, err) ==
  [self |-> self, end |-> "Err", err |-> err,
   increment_pc |-> TRUE, skip_next_instruction |-> FALSE]

Panicked(self) ==
  [self |-> self, end |-> "Panic", err |-> NoError,
   increment_pc |-> TRUE, skip_next_instruction |-> FALSE]

\* a faulty variant of Inst::Exe: the default increment of pc is applied
\* before the error is returned
Inst_Exe_AdvancesPc(self, nnn) ==
  ReturnErr([self EXCEPT !.pc = self.pc + 2],
            [kind |-> "UnknownMachineSubroutine", nnn |-> nnn])

\* a faulty variant of Inst::Exe: the error carries the low byte only
Inst_Exe_ByteOperand(self, nnn) ==
  ReturnErr(self, [kind |-> "UnknownMachineSubroutine", nnn |-> nnn % 256])

\* Inst::Exe
Inst_Exe(self, nnn) ==
  ReturnErr(self, [kind |-> "UnknownMachineSubroutine", nnn |-> nnn])

\* Inst::Clear
Inst_Clear(self) == Done([self EXCEPT !.screen = clear])

\* a faulty variant of Inst::Return: pc is popped before the stack pointer
\* is tested
Inst_Return_PopsFirst(self) ==
  IF self.stack_ptr = 0
    THEN ReturnErr([self EXCEPT !.pc = self.stack[0]], [kind |-> "EmptyStackReturn"])
    ELSE Done([self EXCEPT !.pc = self.stack[self.stack_ptr - 1],
                           !.stack_ptr = self.stack_ptr - 1])

\* Inst::Return
Inst_Return(self) ==
  IF self.stack_ptr = 0
    THEN ReturnErr(self, [kind |-> "EmptyStackReturn"])
    ELSE Done([self EXCEPT !.pc = self.stack[self.stack_ptr - 1],
                           !.stack_ptr = self.stack_ptr - 1])

\* a faulty variant of Inst::Jump: the default increment is not suppressed
Inst_Jump_Increments(self, nnn) == Done([self EXCEPT !.pc = nnn])

\* Inst::Jump
Inst_Jump(self, nnn) == NoIncrement([self EXCEPT !.pc = nnn])

\* a faulty variant of Inst::Call: the address pushed is that of the next
\* instruction, which Return then increments once more
Inst_Call_PushesNext(self, nnn) ==
  IF self.stack_ptr >= STACK_SIZE
    THEN Panicked(self)
    ELSE NoIncrement([self EXCEPT !.stack[self.stack_ptr] = self.pc + 2,
                                  !.stack_ptr = self.stack_ptr + 1,
                                  !.pc = nnn])

\* a faulty variant of Inst::Call: the stack pointer is incremented before
\* the slot is written
Inst_Call_CountsFirst(self, nnn) ==
  IF self.stack_ptr >= STACK_SIZE
    THEN Panicked([self EXCEPT !.stack_ptr = self.stack_ptr + 1])
    ELSE NoIncrement([self EXCEPT !.stack[self.stack_ptr] = self.pc,
                                  !.stack_ptr = self.stack_ptr + 1,
                                  !.pc = nnn])

\* Inst::Call: indexing stack[stack_ptr] panics when stack_ptr = STACK_SIZE
Inst_Call(self, nnn) ==
  IF self.stack_ptr >= STACK_SIZE
    THEN Panicked(self)
    ELSE NoIncrement([self EXCEPT !.stack[self.stack_ptr] = self.pc,
                                  !.stack_ptr = self.stack_ptr + 1,
                                  !.pc = nnn])

\* Inst::SkipEqualValue
Inst_SkipEqualValue(self, vx, nn) == Skip(self, self.v_reg[vx] = nn)

\* Inst::SkipNotEqualValue
Inst_SkipNotEqualValue(self, vx, nn) == Skip(self, self.v_reg[vx] # nn)

\* Inst::SkipEqualRegister
Inst_SkipEqualRegister(self, vx, vy) == Skip(self, self.v_reg[vx] = self.v_reg[vy])

\* Inst::SkipNotEqualRegister
Inst_SkipNotEqualRegister(self, vx, vy) == Skip(self, self.v_reg[vx] # self.v_reg[vy])

\* Inst::LoadValue
Inst_LoadValue(self, vx, nn) == Done([self EXCEPT !.v_reg[vx] = nn])

\* Inst::AddValue: wrapping_add
\* a faulty variant of Inst::AddValue: VF receives the carry
Inst_AddValue_SetsCarry(self, vx, nn) ==
  LET sum == self.v_reg[vx] + nn
  IN  Done([self EXCEPT !.v_reg = [[self.v_reg EXCEPT ![vx] = sum % 256]
                                     EXCEPT ![15] = IF sum > 255 THEN 1 ELSE 0]])

\* Inst::AddValue
Inst_AddValue(self, vx, nn) ==
  Done([self EXCEPT !.v_reg[vx] = (self.v_reg[vx] + nn) % 256])

\* Inst::LoadRegister
Inst_LoadRegister(self, vx, vy) == Done([self EXCEPT !.v_reg[vx] = self.v_reg[vy]])

\* Inst::Or
Inst_Or(self, vx, vy) ==
  Done([self EXCEPT !.v_reg[vx] = BitOp("or", self.v_reg[vx], self.v_reg[vy], 8)])

\* Inst::And
Inst_And(self, vx, vy) ==
  Done([self EXCEPT !.v_reg[vx] = BitOp("and", self.v_reg[vx], self.v_reg[vy], 8)])

\* Inst::Xor
Inst_Xor(self, vx, vy) ==
  Done([self EXCEPT !.v_reg[vx] = BitOp("xor", self.v_reg[vx], self.v_reg[vy], 8)])

\* Inst::AddRegister: the right-hand side stores the flag in v_reg[0xf]
\* while it computes the result; the result is stored in v_reg[vx] after it
Inst_AddRegister(self, vx, vy) ==
  LET sum == self.v_reg[vx] + self.v_reg[vy]
      flag == IF sum <= 255 THEN 0 ELSE 1
      flagged == [self.v_reg EXCEPT ![15] = flag]
  IN  Done([self EXCEPT !.v_reg = [flagged EXCEPT ![vx] = sum % 256]])

\* Inst::SubRegisterXY: flag first, result after it
Inst_SubRegisterXY(self, vx, vy) ==
  LET diff == self.v_reg[vx] - self.v_reg[vy]
      flag == IF diff >= 0 THEN 1 ELSE 0
      flagged == [self.v_reg EXCEPT ![15] = flag]
  IN  Done([self EXCEPT !.v_reg = [flagged EXCEPT ![vx] = diff % 256]])

\* a faulty variant of Inst::ShiftRight: the source register is shifted too
Inst_ShiftRight_ShiftsSource(self, vx, vy) ==
  LET flag == self.v_reg[vy] % 2
      shifted == [self.v_reg EXCEPT ![vx] = self.v_reg[vy] \div 2,
                                    ![vy] = self.v_reg[vy] \div 2]
  IN  Done([self EXCEPT !.v_reg = [shifted EXCEPT ![15] = flag]])

\* Inst::ShiftRight: result first, flag after it
Inst_ShiftRight(self, vx, vy) ==
  LET flag == self.v_reg[vy] % 2
      shifted == [self.v_reg EXCEPT ![vx] = self.v_reg[vy] \div 2]
  IN  Done([self EXCEPT !.v_reg = [shifted EXCEPT ![15] = flag]])

\* Inst::SubRegisterYX: flag first, result after it
Inst_SubRegisterYX(self, vx, vy) ==
  LET diff == self.v_reg[vy] - self.v_reg[vx]
      flag == IF diff >= 0 THEN 1 ELSE 0
      flagged == [self.v_reg EXCEPT ![15] = flag]
  IN  Done([self EXCEPT !.v_reg = [flagged EXCEPT ![vx] = diff % 256]])

\* a faulty variant of Inst::ShiftLeft: VX is shifted in place
Inst_ShiftLeft_InPlace(self, vx, vy) ==
  LET flag == (self.v_reg[vx] \div 128) % 2
      shifted == [self.v_reg EXCEPT ![vx] = (self.v_reg[vx] * 2) % 256]
  IN  Done([self EXCEPT !.v_reg = [shifted EXCEPT ![15] = flag]])

\* Inst::ShiftLeft: result first, flag after it
Inst_ShiftLeft(self, vx, vy) ==
  LET flag == (self.v_reg[vy] \div 128) % 2
      shifted == [self.v_reg EXCEPT ![vx] = (self.v_reg[vy] * 2) % 256]
  IN  Done([self EXCEPT !.v_reg = [shifted EXCEPT ![15] = flag]])

\* Inst::LoadIntoI
Inst_LoadIntoI(self, nnn) == Done([self EXCEPT !.i_reg = nnn])

\* Inst::JumpAdd: nnn + V0 <= 0xfff + 0xff fits in u16
Inst_JumpAdd(self, nnn) == NoIncrement([self EXCEPT !.pc = nnn + self.v_reg[0]])

\* Inst::LoadRandom: the constant 123 masked by nn
Inst_LoadRandom(self, vx, nn) ==
  Done([self EXCEPT !.v_reg[vx] = BitOp("and", 123, nn, 8)])

\* Inst::DrawSprite
Inst_DrawSprite(self, vx, vy, n, overflow_checks) ==
  IF self.i_reg + n > CHIP8_MEMORY_SIZE_BYTES
    THEN ReturnErr(self, [kind |-> "SpriteMemoryOverflow",
                          index |-> self.i_reg, len |-> n])
  ELSE
    LET sprite == Chip8Memory_get_bytes(self.memory, self.i_reg, n)
        drawn == draw_sprite(self.screen, self.v_reg[vx], self.v_reg[vy],
                             sprite.bytes, overflow_checks)
    IN  IF sprite.panic THEN Panicked(self)
        ELSE IF drawn.panic THEN Panicked([self EXCEPT !.screen = drawn.screen])
        ELSE Done([self EXCEPT !.screen = drawn.screen,
                               !.v_reg[15] = IF drawn.collision THEN 1 ELSE 0])

\* Inst::SkipIfKey: indexing the [bool; 16] snapshot panics above 15
Inst_SkipIfKey(self, vx, keyboard_state) ==
  IF self.v_reg[vx] > 15 THEN Panicked(self)
  ELSE Skip(self, keyboard_state[self.v_reg[vx]])

\* Inst::SkipIfNotKey
Inst_SkipIfNotKey(self, vx, keyboard_state) ==
  IF self.v_reg[vx] > 15 THEN Panicked(self)
  ELSE Skip(self, ~keyboard_state[self.v_reg[vx]])

\* a faulty variant of Inst::LoadDelay: reading the delay timer counts it down
Inst_LoadDelay_CountsDown(self, vx) ==
  Done([self EXCEPT !.v_reg[vx] = self.delay_timer,
                    !.delay_timer = IF self.delay_timer > 0
                                      THEN self.delay_timer - 1 ELSE 0])

\* Inst::LoadDelay
Inst_LoadDelay(self, vx) == Done([self EXCEPT !.v_reg[vx] = self.delay_timer])

\* a faulty variant of Inst::WaitForKey: completes on a key that is down
Inst_WaitForKey_Level(self, vx, keyboard_state, previous_keyboard_state) ==
  LET down == {i \in 0..15 : keyboard_state[i]}
  IN  IF down = {} THEN NoIncrement(self)
      ELSE Done([self EXCEPT !.v_reg[vx] = Min(down)])

\* a faulty variant of Inst::WaitForKey: completes on a key going down
Inst_WaitForKey_Rising(self, vx, keyboard_state, previous_keyboard_state) ==
  LET pressed == {i \in 0..15 : keyboard_state[i] /\ ~previous_keyboard_state[i]}
  IN  IF pressed = {} THEN NoIncrement(self)
      ELSE Done([self EXCEPT !.v_reg[vx] = Min(pressed)])

\* a faulty variant of Inst::WaitForKey: the highest released key is stored
Inst_WaitForKey_Highest(self, vx, keyboard_state, previous_keyboard_state) ==
  LET released == {i \in 0..15 : previous_keyboard_state[i] /\ ~keyboard_state[i]}
  IN  IF released = {} THEN NoIncrement(self)
      ELSE Done([self EXCEPT !.v_reg[vx] =
                   CHOOSE i \in released : \A j \in released : j <= i])

\* Inst::WaitForKey: the loop stops at the first (lowest) i that was down in
\* the previous snapshot and is up in the current one
Inst_WaitForKey(self, vx, keyboard_state, previous_keyboard_state) ==
  LET released == {i \in 0..15 : previous_keyboard_state[i] /\ ~keyboard_state[i]}
  IN  IF released = {} THEN NoIncrement(self)
      ELSE Done([self EXCEPT !.v_reg[vx] = Min(released)])

\* Inst::SetDelay
Inst_SetDelay(self, vx) == Done([self EXCEPT !.delay_timer = self.v_reg[vx]])

\* Inst::SetSound
Inst_SetSound(self, vx) == Done([self EXCEPT !.sound_timer = self.v_reg[vx]])

\* Inst::AddToI: u16 += ; past 0xffff it panics with overflow checks on and
\* wraps with them off
Inst_AddToI(self, vx, overflow_checks) ==
  LET sum == self.i_reg + self.v_reg[vx]
  IN  IF sum > 65535 /\ overflow_checks THEN Panicked(self)
      ELSE Done([self EXCEPT !.i_reg = sum % 65536])

\* Inst::LoadDigitSpriteAddrIntoI: SPRITES_OFFSET_BYTES + the operand vx
Inst_LoadDigitSpriteAddrIntoI(self, vx) ==
  Done([self EXCEPT !.i_reg = SPRITES_OFFSET_BYTES + vx])

\* a faulty variant of Inst::StoreBCD: the digits are stored ones first
Inst_StoreBCD_OnesFirst(self, vx) ==
  LET value == self.v_reg[vx]
      ones == value % 10
      tens == (value \div 10) % 10
      hundreds == (value \div 100) % 10
      s1 == Chip8Memory_set(self.memory, self.i_reg, ones)
      s2 == Chip8Memory_set(s1.memory, self.i_reg + 1, tens)
      s3 == Chip8Memory_set(s2.memory, self.i_reg + 2, hundreds)
  IN  IF s1.panic THEN Panicked(self)
      ELSE IF s2.panic THEN Panicked([self EXCEPT !.memory = s1.memory])
      ELSE IF s3.panic THEN Panicked([self EXCEPT !.memory = s2.memory])
      ELSE Done([self EXCEPT !.memory = s3.memory])

\* Inst::StoreBCD: three memory.set calls in a row; each may panic
Inst_StoreBCD(self, vx) ==
  LET value == self.v_reg[vx]
      ones == value % 10
      tens == (value \div 10) % 10
      hundreds == (value \div 100) % 10
      s1 == Chip8Memory_set(self.memory, self.i_reg, hundreds)
      s2 == Chip8Memory_set(s1.memory, self.i_reg + 1, tens)
      s3 == Chip8Memory_set(s2.memory, self.i_reg + 2, ones)
  IN  IF s1.panic THEN Panicked(self)
      ELSE IF s2.panic THEN Panicked([self EXCEPT !.memory = s1.memory])
      ELSE IF s3.panic THEN Panicked([self EXCEPT !.memory = s2.memory])
      ELSE Done([self EXCEPT !.memory = s3.memory])

RECURSIVE StoreLoop(_, _, _, _, _)
\* the loop `for i in 0..=vx { memory.set(i_reg + i, v_reg[i]) }` from i on
StoreLoop(memory, i_reg, v_reg, i, vx) ==
  IF i > vx THEN [panic |-> FALSE, memory |-> memory]
  ELSE LET s == Chip8Memory_set(memory, i_reg + i, v_reg[i])
       IN  IF s.panic THEN s
           ELSE StoreLoop(s.memory, i_reg, v_reg, i + 1, vx)

\* a faulty variant of Inst::StoreRegisters: I is advanced by X only
Inst_StoreRegisters_AdvancesByX(self, vx) ==
  LET stored == StoreLoop(self.memory, self.i_reg, self.v_reg, 0, vx)
  IN  IF stored.panic THEN Panicked([self EXCEPT !.memory = stored.memory])
      ELSE Done([self EXCEPT !.memory = stored.memory,
                             !.i_reg = self.i_reg + vx])

\* Inst::StoreRegisters
Inst_StoreRegisters(self, vx) ==
  LET stored == StoreLoop(self.memory, self.i_reg, self.v_reg, 0, vx)
  IN  IF stored.panic THEN Panicked([self EXCEPT !.memory = stored.memory])
      ELSE Done([self EXCEPT !.memory = stored.memory,
                             !.i_reg = self.i_reg + vx + 1])

RECURSIVE LoadLoop(_, _, _, _, _)
\* the loop `for i in 0..=vx { v_reg[i] = memory.get(i_reg + i) }` from i on
LoadLoop(memory, i_reg, v_reg, i, vx) ==
  IF i > vx THEN [panic |-> FALSE, v_reg |-> v_reg]
  ELSE LET g == Chip8Memory_get(memory, i_reg + i)
       IN  IF g.panic THEN [panic |-> TRUE, v_reg |-> v_reg]
           ELSE LoadLoop(memory, i_reg, [v_reg EXCEPT ![i] = g.value], i + 1, vx)

\* Inst::LoadRegisters
\* a faulty variant of Inst::LoadRegisters: the copy goes from the registers
\* to memory
Inst_LoadRegisters_Stores(self, vx) == Inst_StoreRegisters(self, vx)

\* Inst::LoadRegisters
Inst_LoadRegisters(self, vx) ==
  LET loaded == LoadLoop(self.memory, self.i_reg, self.v_reg, 0, vx)
  IN  IF loaded.panic THEN Panicked([self EXCEPT !.v_reg = loaded.v_reg])
      ELSE Done([self EXCEPT !.v_reg = loaded.v_reg,
                             !.i_reg = self.i_reg + vx + 1])

\* Result<(), CycleError> of Chip8::cycle, and a panic
OkResult == [kind |-> "Ok", err |-> NoError]

DecodeErrorResult(err) == [kind |-> "DecodeError", err |-> err]

ExecuteErrorResult(err) == [kind |-> "ExecuteError", err |-> err]

PanicResult == [kind |-> "Panic", err |-> NoError]

\* no cycle call has returned since the last construction or timer tick
NoResult == [kind |-> "None", err |-> NoError]

NoInst == [op |-> "none"]

\* Chip8::get_instruction: two memory.get calls, big-endian
get_instruction(self) ==
  LET hi == Chip8Memory_get(self.memory, self.pc)
      lo == Chip8Memory_get(self.memory, self.pc + 1)
  IN  [panic |-> hi.panic \/ lo.panic, word |-> hi.value * 256 + lo.value]

\* the match of Chip8::execute_instruction
ExecuteArm(self, i, keyboard_state, previous_keyboard_state, overflow_checks) ==
  CASE i.op = "Exe" -> Inst_Exe(self, i.nnn)
    [] i.op = "Clear" -> Inst_Clear(self)
    [] i.op = "Return" -> Inst_Return(self)
    [] i.op = "Jump" -> Inst_Jump(self, i.nnn)
    [] i.op = "Call" -> Inst_Call(self, i.nnn)
    [] i.op = "SkipEqualValue" -> Inst_SkipEqualValue(self, i.vx, i.nn)
    [] i.op = "SkipNotEqualValue" -> Inst_SkipNotEqualValue(self, i.vx, i.nn)
    [] i.op = "SkipEqualRegister" -> Inst_SkipEqualRegister(self, i.vx, i.vy)
    [] i.op = "LoadValue" -> Inst_LoadValue(self, i.vx, i.nn)
    [] i.op = "AddValue" -> Inst_AddValue(self, i.vx, i.nn)
    [] i.op = "LoadRegister" -> Inst_LoadRegister(self, i.vx, i.vy)
    [] i.op = "Or" -> Inst_Or(self, i.vx, i.vy)
    [] i.op = "And" -> Inst_And(self, i.vx, i.vy)
    [] i.op = "Xor" -> Inst_Xor(self, i.vx, i.vy)
    [] i.op = "AddRegister" -> Inst_AddRegister(self, i.vx, i.vy)
    [] i.op = "SubRegisterXY" -> Inst_SubRegisterXY(self, i.vx, i.vy)
    [] i.op = "ShiftRight" -> Inst_ShiftRight(self, i.vx, i.vy)
    [] i.op = "SubRegisterYX" -> Inst_SubRegisterYX(self, i.vx, i.vy)
    [] i.op = "ShiftLeft" -> Inst_ShiftLeft(self, i.vx, i.vy)
    [] i.op = "SkipNotEqualRegister" -> Inst_SkipNotEqualRegister(self, i.vx, i.vy)
    [] i.op = "LoadIntoI" -> Inst_LoadIntoI(self, i.nnn)
    [] i.op = "JumpAdd" -> Inst_JumpAdd(self, i.nnn)
    [] i.op = "LoadRandom" -> Inst_LoadRandom(self, i.vx, i.nn)
    [] i.op = "DrawSprite" -> Inst_DrawSprite(self, i.vx, i.vy, i.n, overflow_checks)
    [] i.op = "SkipIfKey" -> Inst_SkipIfKey(self, i.vx, keyboard_state)
    [] i.op = "SkipIfNotKey" -> Inst_SkipIfNotKey(self, i.vx, keyboard_state)
    [] i.op = "LoadDelay" -> Inst_LoadDelay(self, i.vx)
    [] i.op = "WaitForKey" ->
         Inst_WaitForKey(self, i.vx, keyboard_state, previous_keyboard_state)
    [] i.op = "SetDelay" -> Inst_SetDelay(self, i.vx)
    [] i.op = "SetSound" -> Inst_SetSound(self, i.vx)
    [] i.op = "AddToI" -> Inst_AddToI(self, i.vx, overflow_checks)
    [] i.op = "LoadDigitSpriteAddrIntoI" -> Inst_LoadDigitSpriteAddrIntoI(self, i.vx)
    [] i.op = "StoreBCD" -> Inst_StoreBCD(self, i.vx)
    [] i.op = "StoreRegisters" -> Inst_StoreRegisters(self, i.vx)
    [] i.op = "LoadRegisters" -> Inst_LoadRegisters(self, i.vx)

\* a faulty variant of the tail of Chip8::execute_instruction: a skip adds
\* one byte
AdvancePc_SkipsOneByte(self, increment_pc, skip_next_instruction) ==
  [self EXCEPT !.pc = self.pc + (IF increment_pc THEN 2 ELSE 0)
                              + (IF skip_next_instruction THEN 1 ELSE 0)]

\* the tail of Chip8::execute_instruction: pc += 2 for increment_pc and
\* pc += 2 for skip_next_instruction (pc < 4096 here, so u16 cannot overflow)
AdvancePc(self, increment_pc, skip_next_instruction) ==
  [self EXCEPT !.pc = self.pc + (IF increment_pc THEN 2 ELSE 0)
                              + (IF skip_next_instruction THEN 2 ELSE 0)]

\* Chip8::execute_instruction
execute_instruction(self, instruction, keyboard_state, previous_keyboard_state, overflow_checks) ==
  LET arm == ExecuteArm(self, instruction, keyboard_state,
                        previous_keyboard_state, overflow_checks)
  IN  CASE arm.end = "Err" -> [self |-> arm.self, result |-> ExecuteErrorResult(arm.err)]
        [] arm.end = "Panic" -> [self |-> arm.self, result |-> PanicResult]
        [] OTHER ->
             [self |-> AdvancePc(arm.self, arm.increment_pc, arm.skip_next_instruction),
              result |-> OkResult]

\* Chip8::cycle
cycle(self, keyboard_state, previous_keyboard_state, overflow_checks) ==
  LET instruction_bytes == get_instruction(self)
      decoded == decode(instruction_bytes.word)
      executed == execute_instruction(self, decoded.inst, keyboard_state,
                                      previous_keyboard_state, overflow_checks)
  IN  IF instruction_bytes.panic
        THEN [self |-> self, result |-> PanicResult, inst |-> NoInst]
      ELSE IF ~decoded.ok
        THEN [self |-> self, result |-> DecodeErrorResult(decoded.err), inst |-> NoInst]
      ELSE [self |-> executed.self, result |-> executed.result, inst |-> decoded.inst]

\* a faulty variant of Chip8::update_timers: the timers are decremented
\* without the test for zero and wrap
update_timers_Wraps(self) ==
  [self EXCEPT !.delay_timer = (self.delay_timer - 1) % 256,
               !.sound_timer = (self.sound_timer - 1) % 256]

\* Chip8::update_timers
update_timers(self) ==
  [self EXCEPT !.delay_timer = IF self.delay_timer > 0 THEN self.delay_timer - 1
                               ELSE self.delay_timer,
               !.sound_timer = IF self.sound_timer > 0 THEN self.sound_timer - 1
                               ELSE self.sound_timer]

\* a faulty variant of Chip8::is_sound_playing: a sound timer of 1 counts as
\* a tone
is_sound_playing_AtOne(self) == self.sound_timer >= 1

\* Chip8::is_sound_playing
is_sound_playing(self) == self.sound_timer >= 2

\* Chip8::new (for a program that Chip8Memory::new accepts)
Chip8_new(program) ==
  [memory |-> Chip8Memory_new(program).memory,
   screen |-> clear,
   v_reg |-> [r \in 0..15 |-> 0],
   i_reg |-> 0,
   stack |-> [k \in 0..(STACK_SIZE - 1) |-> 0],
   stack_ptr |-> 0,
   pc |-> PROGRAM_OFFSET_BYTES,
   delay_timer |-> 0,
   sound_timer |-> 0]

\* ------------------------------------------------------------------------
\* Inputs: the programs given to Chip8::new and the key snapshots given to
\* Chip8::cycle

RegPool == (0..MaxReg) \cup {15}

BytePool == (0..MaxSmall) \cup {127, 128} \cup ((255 - MaxSmall)..255)

KeyPool == {15 - 7 * j : j \in 0..MaxKey} \cap (0..15)

\* [bool; 16] snapshots with the keys of KeyPool down or up
KeySnapshots == {[i \in 0..15 |-> i \in S] : S \in SUBSET KeyPool}

NoKeys == [i \in 0..15 |-> FALSE]

\* instruction words from their nibbles and operands
Word(a, b, c, d) == ((a * 16 + b) * 16 + c) * 16 + d

XNN(a, x, nn) == (a * 16 + x) * 256 + nn

NNN(a, nnn) == a * 4096 + nnn

\* a program: its instruction words as big-endian bytes
ToBytes(words) ==
  [k \in 1..(2 * Len(words)) |->
     IF k % 2 = 1 THEN words[(k + 1) \div 2] \div 256 ELSE words[k \div 2] % 256]

\* load VX and VY, then one two-register instruction (8XY0..8XY7, 8XYE,
\* 5XY0, 9XY0), then 0000
RegisterWords(x, y) ==
  {Word(8, x, y, k) : k \in (0..7) \cup {14}}
    \cup {Word(5, x, y, 0), Word(9, x, y, 0)}

RegisterPrograms ==
  UNION {{<<XNN(6, x, a), XNN(6, y, b), w, 0>> :
            b \in (IF x = y THEN {a} ELSE BytePool), w \in RegisterWords(x, y)} :
           x \in RegPool, y \in RegPool, a \in BytePool}

\* load VX, then one instruction with an immediate (3XNN, 4XNN, 7XNN, CXNN)
ImmediatePrograms ==
  {<<XNN(6, x, a), XNN(f, x, b), 0, 0>> :
     x \in RegPool, a \in BytePool, b \in BytePool, f \in {3, 4, 7, 12}}

\* d nested subroutines: the i-th is `Call next; Return`, the innermost is
\* `Return`; the word at index k lies at address 0x200 + 2 * (k - 1)
CallChain(d) ==
  [k \in 1..(2 * d + 1) |->
     IF k % 2 = 1 /\ k < 2 * d + 1
       THEN NNN(2, PROGRAM_OFFSET_BYTES + 2 * (k + 1))
       ELSE 238]

CallPrograms == {CallChain(d) : d \in 0..MaxDepth}

\* load VX, then skip on a key (EX9E, EXA1)
KeySkipPrograms ==
  {<<XNN(6, x, v), XNN(14, x, nn), 0, 0>> :
     x \in RegPool, v \in KeyPool \cup {0, 16, 255}, nn \in {158, 161}}

\* wait for a key in a loop (FX0A; jump back), or after loading VX
WaitPrograms ==
  {<<XNN(15, x, 10), NNN(1, PROGRAM_OFFSET_BYTES)>> : x \in RegPool}
    \cup {<<XNN(6, x, a), XNN(15, x, 10), 0>> : x \in RegPool, a \in BytePool}

\* jumps to the last addresses of memory and past them
JumpPrograms ==
  {<<NNN(1, 4094)>>, <<NNN(1, 4095)>>, <<0, 0>>, <<224, NNN(1, 514)>>}
    \cup {<<XNN(6, 0, a), NNN(11, nnn)>> : a \in BytePool, nnn \in {516, 4095}}

\* point I into or at the end of memory, load VX, then one instruction that
\* works relative to I (FX1E, FX29, FX33, FX55, FX65)
IndexPrograms ==
  {<<NNN(10, nnn), XNN(6, x, a), XNN(15, x, nn), 0>> :
     nnn \in {768, 4093, 4095}, x \in RegPool, a \in BytePool,
     nn \in {30, 41, 51, 85, 101}}

\* load VX, set both timers from it, read the delay timer back
TimerPrograms ==
  {<<XNN(6, x, a), XNN(15, x, 21), XNN(15, x, 24), XNN(15, y, 7), 0>> :
     x \in RegPool, y \in RegPool, a \in 0..(MaxSmall + 2)}

\* point I at the program or near the end of memory, load V0 and V1 with a
\* position, draw N rows twice
DrawPrograms ==
  {<<NNN(10, nnn), XNN(6, 0, p[1]), XNN(6, 1, p[2]), Word(13, 0, 1, n),
     Word(13, 0, 1, n), 0>> :
     nnn \in {512, 4090},
     p \in {<<0, 0>>, <<62, 30>>, <<70, 40>>, <<0, 26>>},
     n \in {0, 1, 5, 8, 15}}

\* words that the decoder rejects
UnknownPrograms ==
  {<<w>> : w \in {Word(5, 0, 1, 1), Word(8, 0, 1, 8), Word(14, 0, 0, 0),
                 Word(15, 0, 0, 0)}}

Programs ==
  RegisterPrograms \cup ImmediatePrograms \cup CallPrograms \cup KeySkipPrograms
    \cup WaitPrograms \cup JumpPrograms \cup IndexPrograms \cup TimerPrograms
    \cup DrawPrograms \cup UnknownPrograms

\* ------------------------------------------------------------------------
\* State

VARIABLES
  memory,          \* Chip8.memory
  screen,          \* Chip8.screen
  v_reg,           \* Chip8.v_reg
  i_reg,           \* Chip8.i_reg
  stack,           \* Chip8.stack
  stack_ptr,       \* Chip8.stack_ptr
  pc,              \* Chip8.pc
  delay_timer,     \* Chip8.delay_timer
  sound_timer,     \* Chip8.sound_timer
  result,          \* what the last call of cycle returned (NoResult: none yet,
                   \* or update_timers was called since)
  inst,            \* the instruction the last cycle decoded and executed
  keyboard_state,  \* the snapshots given to the last cycle
  previous_keyboard_state,
  call_sites,      \* addresses of the Call instructions not yet returned from
  program,         \* the bytes given to Chip8::new
  tone,            \* the value the last SetSound stored and the number of
                   \* update_timers calls since (counted up to MaxTicks)
  host             \* App: the snapshot read by update, previous_keyboard_state,
                   \* the steps the while loop still runs, the cycles run in
                   \* the current step, and the snapshot of the last step run

machine ==
  <<memory, screen, v_reg, i_reg, stack, stack_ptr, pc, delay_timer, sound_timer>>

vars ==
  <<memory, screen, v_reg, i_reg, stack, stack_ptr, pc, delay_timer, sound_timer,
    result, inst, keyboard_state, previous_keyboard_state, call_sites, program,
    tone, host>>

\* the struct Chip8 in the current state
Self ==
  [memory |-> memory, screen |-> screen, v_reg |-> v_reg, i_reg |-> i_reg,
   stack |-> stack, stack_ptr |-> stack_ptr, pc |-> pc,
   delay_timer |-> delay_timer, sound_timer |-> sound_timer]

\* the struct Chip8 in the next state is `self`
Becomes(self) ==
  /\ memory' = self.memory
  /\ screen' = self.screen
  /\ v_reg' = self.v_reg
  /\ i_reg' = self.i_reg
  /\ stack' = self.stack
  /\ stack_ptr' = self.stack_ptr
  /\ pc' = self.pc
  /\ delay_timer' = self.delay_timer
  /\ sound_timer' = self.sound_timer

\* App::default(): no key was down, the accumulator is empty, no step has run
NoHost ==
  [keyboard_state |-> NoKeys, previous_keyboard_state |-> NoKeys, steps |-> 0,
   cycles |-> 0, done_keys |-> NoKeys]

\* no SetSound has been executed
NoTone == [set |-> FALSE, v |-> 0, ticks |-> 0]

ReadsKeyboard(i) == i.op \in {"SkipIfKey", "SkipIfNotKey", "WaitForKey"}

\* the host constructs the machine with Chip8::new(program)
Init ==
  \E words \in Programs :
    \E self \in {Chip8_new(ToBytes(words))} :
        /\ program = ToBytes(words)
        /\ memory = self.memory
        /\ screen = self.screen
        /\ v_reg = self.v_reg
        /\ i_reg = self.i_reg
        /\ stack = self.stack
        /\ stack_ptr = self.stack_ptr
        /\ pc = self.pc
        /\ delay_timer = self.delay_timer
        /\ sound_timer = self.sound_timer
        /\ result = NoResult
        /\ inst = NoInst
        /\ keyboard_state = NoKeys
        /\ previous_keyboard_state = NoKeys
        /\ call_sites = << >>
        /\ tone = NoTone
        /\ host = NoHost

\* The inputs of a cycle that can make a difference to it.  Only the arms
\* SkipIfKey, SkipIfNotKey and WaitForKey of execute_instruction take the
\* snapshots, and only AddToI and DrawSprite hold arithmetic that can
\* overflow: for any other instruction at pc every choice gives the same step.
Fetched ==
  LET instruction_bytes == get_instruction(Self)
  IN  IF instruction_bytes.panic THEN NoInst
      ELSE decode(instruction_bytes.word).inst

SnapshotInputs == IF ReadsKeyboard(Fetched) THEN KeySnapshots ELSE {NoKeys}

BuildInputs == IF Fetched.op \in {"AddToI", "DrawSprite"} THEN BOOLEAN ELSE {TRUE}

\* one call chip8.cycle(&ks, &pks)
CycleCall(ks, pks, overflow_checks) ==
  \E out \in {cycle(Self, ks, pks, overflow_checks)} :
      /\ Becomes(out.self)
      /\ result' = out.result
      /\ inst' = out.inst
      /\ keyboard_state' = ks
      /\ previous_keyboard_state' = pks
      /\ call_sites' =
           IF out.result.kind = "Ok" /\ out.inst.op = "Call"
             THEN Append(call_sites, pc)
           ELSE IF out.result.kind = "Ok" /\ out.inst.op = "Return"
             THEN SubSeq(call_sites, 1, Len(call_sites) - 1)
           ELSE call_sites
      /\ tone' =
           IF out.result.kind = "Ok" /\ out.inst.op = "SetSound"
             THEN [set |-> TRUE, v |-> v_reg[out.inst.vx], ticks |-> 0]
             ELSE tone
      /\ UNCHANGED program

\* the host calls chip8.cycle(&keyboard_state, &previous_keyboard_state);
\* a panic ends the process
Cycle ==
  /\ result.kind # "Panic"
  /\ \E ks \in SnapshotInputs, pks \in SnapshotInputs, overflow_checks \in BuildInputs :
       CycleCall(ks, pks, overflow_checks)
  /\ UNCHANGED host

\* one call chip8.update_timers()
UpdateTimersCall ==
  /\ Becomes(update_timers(Self))
  /\ result' = NoResult
  /\ inst' = NoInst
  /\ keyboard_state' = NoKeys
  /\ previous_keyboard_state' = NoKeys
  /\ tone' = IF tone.set /\ tone.ticks < MaxTicks
               THEN [tone EXCEPT !.ticks = tone.ticks + 1]
               ELSE tone
  /\ UNCHANGED <<call_sites, program>>

\* the host calls chip8.update_timers()
UpdateTimers ==
  /\ result.kind # "Panic"
  /\ UpdateTimersCall
  /\ UNCHANGED host

Next == Cycle \/ UpdateTimers

Spec == Init /\ [][Next]_vars

\* A second specification for what holds of every instruction word: the
\* program is one word, any of the 65536, and the host drives the machine
\* as in Spec.
WordPrograms == {<<w>> : w \in 0..65535}

WordInit ==
  \E words \in WordPrograms :
    \E self \in {Chip8_new(ToBytes(words))} :
        /\ program = ToBytes(words)
        /\ memory = self.memory
        /\ screen = self.screen
        /\ v_reg = self.v_reg
        /\ i_reg = self.i_reg
        /\ stack = self.stack
        /\ stack_ptr = self.stack_ptr
        /\ pc = self.pc
        /\ delay_timer = self.delay_timer
        /\ sound_timer = self.sound_timer
        /\ result = NoResult
        /\ inst = NoInst
        /\ keyboard_state = NoKeys
        /\ previous_keyboard_state = NoKeys
        /\ call_sites = << >>
        /\ tone = NoTone
        /\ host = NoHost

WordSpec == WordInit /\ [][Next]_vars

\* A third specification for drawing: the program points I at sprite data
\* that follows its instructions, loads V0 and V1 with the anchor and draws
\* the sprite twice.
AnchorXs == {0, 28, 56, 57, 63, 69, 255}

AnchorYs == {0, 17, 18, 24, 25, 31, 62, 255}

\* sprites of 1 to 15 rows (N of DXYN is a nibble): every row the same
\* byte, or only the last row set
Sprites ==
  UNION {{[k \in 1..h |-> b] : b \in {0, 1, 129, 255}}
           \cup {[k \in 1..h |-> IF k = h THEN 255 ELSE 0]} : h \in 1..15}

SpriteProgram(x, y, sprite) ==
  ToBytes(<<NNN(10, PROGRAM_OFFSET_BYTES + 12), XNN(6, 0, x), XNN(6, 1, y),
            Word(13, 0, 1, Len(sprite)), Word(13, 0, 1, Len(sprite)), 0>>)
    \o sprite

DrawInit ==
  \E x \in AnchorXs, y \in AnchorYs, sprite \in Sprites :
    \E self \in {Chip8_new(SpriteProgram(x, y, sprite))} :
        /\ program = SpriteProgram(x, y, sprite)
        /\ memory = self.memory
        /\ screen = self.screen
        /\ v_reg = self.v_reg
        /\ i_reg = self.i_reg
        /\ stack = self.stack
        /\ stack_ptr = self.stack_ptr
        /\ pc = self.pc
        /\ delay_timer = self.delay_timer
        /\ sound_timer = self.sound_timer
        /\ result = NoResult
        /\ inst = NoInst
        /\ keyboard_state = NoKeys
        /\ previous_keyboard_state = NoKeys
        /\ call_sites = << >>
        /\ tone = NoTone
        /\ host = NoHost

DrawSpec == DrawInit /\ [][Next]_vars

\* A fourth specification for construction: programs of lengths around the
\* room between 0x200 and the end of memory, among them programs that
\* Chip8Memory::new rejects with a panic, which ends the process.
Pad(bytes, len, fill) ==
  [k \in 1..len |-> IF k <= Len(bytes) THEN bytes[k] ELSE fill]

LoadLengths ==
  {0, 2, 8}
    \cup ((CHIP8_MEMORY_SIZE_BYTES - PROGRAM_OFFSET_BYTES - MaxSmall)
           ..(CHIP8_MEMORY_SIZE_BYTES - PROGRAM_OFFSET_BYTES + MaxSmall + 1))

LoadPrograms ==
  {Pad(ToBytes(<<XNN(6, 0, a), XNN(15, 0, 21), XNN(15, 0, 24), XNN(15, 0, 7)>>),
       len, fill) :
     a \in 0..(MaxSmall + 2), len \in LoadLengths, fill \in {0, 255}}

LoadInit ==
  \E bytes \in LoadPrograms :
    \E self \in {Chip8_new(bytes)} :
        /\ program = bytes
        /\ memory = self.memory
        /\ screen = self.screen
        /\ v_reg = self.v_reg
        /\ i_reg = self.i_reg
        /\ stack = self.stack
        /\ stack_ptr = self.stack_ptr
        /\ pc = self.pc
        /\ delay_timer = self.delay_timer
        /\ sound_timer = self.sound_timer
        /\ result = IF Chip8Memory_new(bytes).panic THEN PanicResult ELSE NoResult
        /\ inst = NoInst
        /\ keyboard_state = NoKeys
        /\ previous_keyboard_state = NoKeys
        /\ call_sites = << >>
        /\ tone = NoTone
        /\ host = NoHost

LoadSpec == LoadInit /\ [][Next]_vars

\* A fifth specification for the block copies: load V0 and V1, point I at
\* a block inside or at the end of memory, store V0..VX, overwrite V0 and V1,
\* point I at the block again, load V0..VX.
BlockValues == {1, 128, 255}

BlockAddresses ==
  {768, CHIP8_MEMORY_SIZE_BYTES - 16, CHIP8_MEMORY_SIZE_BYTES - 15,
   CHIP8_MEMORY_SIZE_BYTES - 1}

BlockPrograms ==
  {<<XNN(6, 0, a), XNN(6, 1, b), NNN(10, addr), XNN(15, x, 85),
     XNN(6, 0, 85), XNN(6, 1, 170), NNN(10, addr), XNN(15, x, 101), 0>> :
     a \in BlockValues, b \in BlockValues, addr \in BlockAddresses, x \in 0..15}

BlockInit ==
  \E words \in BlockPrograms :
    \E self \in {Chip8_new(ToBytes(words))} :
        /\ program = ToBytes(words)
        /\ memory = self.memory
        /\ screen = self.screen
        /\ v_reg = self.v_reg
        /\ i_reg = self.i_reg
        /\ stack = self.stack
        /\ stack_ptr = self.stack_ptr
        /\ pc = self.pc
        /\ delay_timer = self.delay_timer
        /\ sound_timer = self.sound_timer
        /\ result = NoResult
        /\ inst = NoInst
        /\ keyboard_state = NoKeys
        /\ previous_keyboard_state = NoKeys
        /\ call_sites = << >>
        /\ tone = NoTone
        /\ host = NoHost

BlockSpec == BlockInit /\ [][Next]_vars

\* A specification for the tone: the program loads V0, sets the sound timer
\* from it, does so a second time, and then either jumps to itself for ever
\* or runs into the word 0000.  The host calls update_timers once per frame
\* for as long as the process runs, so update_timers is not postponed for
\* ever.
ToneValues == 0..(MaxSmall + 3)

TonePrograms ==
  {<<XNN(6, 0, a), XNN(15, 0, 24), XNN(6, 0, b), XNN(15, 0, 24), last>> :
     a \in ToneValues, b \in ToneValues,
     last \in {0, NNN(1, PROGRAM_OFFSET_BYTES + 8)}}

ToneInit ==
  \E words \in TonePrograms :
    \E self \in {Chip8_new(ToBytes(words))} :
        /\ program = ToBytes(words)
        /\ memory = self.memory
        /\ screen = self.screen
        /\ v_reg = self.v_reg
        /\ i_reg = self.i_reg
        /\ stack = self.stack
        /\ stack_ptr = self.stack_ptr
        /\ pc = self.pc
        /\ delay_timer = self.delay_timer
        /\ sound_timer = self.sound_timer
        /\ result = NoResult
        /\ inst = NoInst
        /\ keyboard_state = NoKeys
        /\ previous_keyboard_state = NoKeys
        /\ call_sites = << >>
        /\ tone = NoTone
        /\ host = NoHost

ToneSpec == ToneInit /\ [][Next]_vars /\ WF_vars(UpdateTimers)

\* A specification of the simulation loop of App::update.  The programs wait
\* for a key twice and then spin, wait for a key for ever, or wait for a key
\* and run into the word 0000.
HostPrograms ==
  {<<XNN(15, 0, 10), XNN(15, 1, 10), NNN(1, PROGRAM_OFFSET_BYTES + 4)>>,
   <<XNN(15, 0, 10), NNN(1, PROGRAM_OFFSET_BYTES)>>,
   <<XNN(15, 0, 10), 0>>}

HostInit ==
  \E words \in HostPrograms :
    \E self \in {Chip8_new(ToBytes(words))} :
        /\ program = ToBytes(words)
        /\ memory = self.memory
        /\ screen = self.screen
        /\ v_reg = self.v_reg
        /\ i_reg = self.i_reg
        /\ stack = self.stack
        /\ stack_ptr = self.stack_ptr
        /\ pc = self.pc
        /\ delay_timer = self.delay_timer
        /\ sound_timer = self.sound_timer
        /\ result = NoResult
        /\ inst = NoInst
        /\ keyboard_state = NoKeys
        /\ previous_keyboard_state = NoKeys
        /\ call_sites = << >>
        /\ tone = NoTone
        /\ host = NoHost

\* cycle(..).unwrap() has not ended the process
HostRuns == result.kind \in {"None", "Ok"}

\* App::update up to the while loop: the time since the last call is added
\* to delta_accumulator, which then holds `steps` whole steps of 1/60 s, and
\* the keys are read once
App_update ==
  /\ HostRuns
  /\ host.steps = 0
  /\ \E ks \in KeySnapshots, steps \in 0..MaxSteps :
       host' = [host EXCEPT !.keyboard_state = ks, !.steps = steps, !.cycles = 0]
  /\ UNCHANGED <<machine, result, inst, keyboard_state, previous_keyboard_state,
                 call_sites, program, tone>>

\* one pass of `for _ in 0..30`: chip8.cycle(&keyboard_state,
\* &self.previous_keyboard_state).unwrap()
HostCycle ==
  /\ HostRuns
  /\ host.steps > 0
  /\ host.cycles < CYCLES_PER_STEP
  /\ \E overflow_checks \in BuildInputs :
       CycleCall(host.keyboard_state, host.previous_keyboard_state, overflow_checks)
  /\ host' = [host EXCEPT !.cycles = host.cycles + 1]

\* a faulty variant of the end of a step: previous_keyboard_state is left as
\* it was
HostUpdateTimers_KeepsPrevious ==
  /\ HostRuns
  /\ host.steps > 0
  /\ host.cycles = CYCLES_PER_STEP
  /\ UpdateTimersCall
  /\ host' = [host EXCEPT !.steps = host.steps - 1,
                          !.cycles = 0,
                          !.done_keys = host.keyboard_state]

\* the end of a step: chip8.update_timers(), previous_keyboard_state =
\* keyboard_state, delta_accumulator -= frametime
HostUpdateTimers ==
  /\ HostRuns
  /\ host.steps > 0
  /\ host.cycles = CYCLES_PER_STEP
  /\ UpdateTimersCall
  /\ host' = [host EXCEPT !.previous_keyboard_state = host.keyboard_state,
                          !.steps = host.steps - 1,
                          !.cycles = 0,
                          !.done_keys = host.keyboard_state]

HostNext == App_update \/ HostCycle \/ HostUpdateTimers

HostSpec == HostInit /\ [][HostNext]_vars

\* ------------------------------------------------------------------------
\* Properties

\* keys with a falling edge: down in the previous snapshot, up in the current
FallingEdges(ks, pks) == {i \in 0..15 : pks[i] /\ ~ks[i]}

\* the step is a cycle that executed instruction `op` to the end
Executed(op) == inst'.op = op /\ result'.kind = "Ok"

\* C1: from every state reachable from construction by cycle and
\* update_timers calls, cycle returns Ok or a typed CycleError and never
\* panics.
C1_CycleNeverPanics == result.kind # "Panic"

\* C2: a Call executed with the stack pointer at the capacity 12 returns a
\* typed error from cycle and writes nothing to the stack.
C2_CallAtCapacityIsTypedError ==
  [][(inst'.op = "Call" /\ stack_ptr = STACK_SIZE)
       => (result'.kind = "ExecuteError" /\ stack' = stack /\ stack_ptr' = stack_ptr)]_vars

\* C3: a Return executed with the stack pointer at 0 yields
\* ExecuteError::EmptyStackReturn and leaves pc, the stack and the stack
\* pointer unchanged.
C3_EmptyStackReturn ==
  [][(inst'.op = "Return" /\ stack_ptr = 0)
       => /\ result' = ExecuteErrorResult([kind |-> "EmptyStackReturn"])
          /\ pc' = pc
          /\ stack' = stack
          /\ stack_ptr' = stack_ptr]_vars

C3_Witness ==
  /\ inst.op = "Return"
  /\ result.kind = "ExecuteError"
  /\ result.err.kind = "EmptyStackReturn"
  /\ stack[0] # 0

\* C4: Call and Return nest last-in first-out: every Return sets pc to the
\* address of the latest Call not yet returned from plus 2, and the stack
\* pointer counts the Calls not yet returned from, so that after k Calls
\* and k Returns it is back to its value before the first Call.
C4_CallReturnRoundTrip ==
  [][/\ Executed("Return")
          => /\ Len(call_sites) > 0
             /\ pc' = call_sites[Len(call_sites)] + 2
     /\ stack_ptr' = Len(call_sites')]_vars

\* all of 12 nested Calls have been returned from
C4_Witness ==
  /\ inst.op = "Return"
  /\ result.kind = "Ok"
  /\ stack_ptr = 0
  /\ stack[STACK_SIZE - 1] # 0
  /\ pc = PROGRAM_OFFSET_BYTES + 2

\* C5: whenever cycle returns a decode error or an execute error, the whole
\* machine state after the call equals the state before it.
C5_ErrorLeavesStateUnchanged ==
  [][result'.kind \in {"DecodeError", "ExecuteError"} => machine' = machine]_vars

C5_Witness ==
  /\ result.kind = "ExecuteError"
  /\ result.err.kind = "UnknownMachineSubroutine"
  /\ pc # PROGRAM_OFFSET_BYTES
  /\ \E r \in 0..15 : v_reg[r] # 0

\* C6: with WaitForKey at pc, a cycle whose snapshots hold no falling edge
\* leaves pc, every register and memory unchanged, so the same instruction
\* is fetched again by the next cycle.
C6_WaitForKeyStalls ==
  [][(inst'.op = "WaitForKey"
        /\ FallingEdges(keyboard_state', previous_keyboard_state') = {})
       => /\ result'.kind = "Ok"
          /\ machine' = machine]_vars

\* a key held down in both snapshots
C6_Witness ==
  /\ inst.op = "WaitForKey"
  /\ \E i \in 0..15 : keyboard_state[i] /\ previous_keyboard_state[i]
  /\ FallingEdges(keyboard_state, previous_keyboard_state) = {}
  /\ result.kind = "Ok"

\* C7: with WaitForKey at pc, a cycle completes (pc advances by 2) exactly
\* when its snapshots hold a falling edge, and it then stores a key with a
\* falling edge in VX.
C7_WaitForKeyCompletesOnRelease ==
  [][inst'.op = "WaitForKey"
       => LET released == FallingEdges(keyboard_state', previous_keyboard_state')
          IN  /\ result'.kind = "Ok"
              /\ released # {} => (pc' = pc + 2 /\ v_reg'[inst'.vx] \in released)
              /\ released = {} => pc' = pc]_vars

\* a release completed the wait while another key was still held down
C7_Witness ==
  /\ inst.op = "WaitForKey"
  /\ result.kind = "Ok"
  /\ FallingEdges(keyboard_state, previous_keyboard_state) = {8}
  /\ keyboard_state[15]
  /\ v_reg[inst.vx] = 8

\* C8: for every register pair X, Y in 0..15, after AddRegister VX is
\* (old VX + old VY) mod 256 and VF is 1 if old VX + old VY > 255, else 0.
C8_AddRegister ==
  [][Executed("AddRegister")
       => LET sum == v_reg[inst'.vx] + v_reg[inst'.vy]
          IN  /\ v_reg'[inst'.vx] = sum % 256
              /\ v_reg'[15] = IF sum > 255 THEN 1 ELSE 0]_vars

\* C9: for every register pair X, Y in 0..15, SubRegisterXY sets VX to
\* (old VX - old VY) mod 256 and SubRegisterYX sets VX to
\* (old VY - old VX) mod 256, and VF is 1 when no borrow occurred, else 0.
C9_SubRegister ==
  [][/\ Executed("SubRegisterXY")
          => LET diff == v_reg[inst'.vx] - v_reg[inst'.vy]
             IN  /\ v_reg'[inst'.vx] = diff % 256
                 /\ v_reg'[15] = IF diff >= 0 THEN 1 ELSE 0
     /\ Executed("SubRegisterYX")
          => LET diff == v_reg[inst'.vy] - v_reg[inst'.vx]
             IN  /\ v_reg'[inst'.vx] = diff % 256
                 /\ v_reg'[15] = IF diff >= 0 THEN 1 ELSE 0]_vars

\* C10 as stated: for every register pair X, Y in 0..15, ShiftRight sets VX
\* to old VY >> 1 and VF to bit 0 of old VY, and ShiftLeft sets VX to
\* (old VY << 1) mod 256 and VF to bit 7 of old VY.
C10_ShiftAsStated ==
  [][/\ Executed("ShiftRight")
          => /\ v_reg'[inst'.vx] = v_reg[inst'.vy] \div 2
             /\ v_reg'[15] = v_reg[inst'.vy] % 2
     /\ Executed("ShiftLeft")
          => /\ v_reg'[inst'.vx] = (v_reg[inst'.vy] * 2) % 256
             /\ v_reg'[15] = v_reg[inst'.vy] \div 128]_vars

\* C10 amended: for every register pair X, Y in 0..15, ShiftRight sets VF to
\* bit 0 of old VY and, when X is not 0xF, VX to old VY >> 1; ShiftLeft sets
\* VF to bit 7 of old VY and, when X is not 0xF, VX to (old VY << 1) mod 256.
\* The old value of VX is not used.
C10_Shift ==
  [][/\ Executed("ShiftRight")
          => /\ inst'.vx # 15 => v_reg'[inst'.vx] = v_reg[inst'.vy] \div 2
             /\ v_reg'[15] = v_reg[inst'.vy] % 2
     /\ Executed("ShiftLeft")
          => /\ inst'.vx # 15 => v_reg'[inst'.vx] = (v_reg[inst'.vy] * 2) % 256
             /\ v_reg'[15] = v_reg[inst'.vy] \div 128]_vars

\* a ShiftLeft of VY = 255 into another register that held something else
C10_Witness ==
  /\ inst.op = "ShiftLeft"
  /\ result.kind = "Ok"
  /\ inst.vx # 15
  /\ inst.vy # 15
  /\ inst.vx # inst.vy
  /\ v_reg[inst.vy] = 255
  /\ v_reg[inst.vx] = 254
  /\ v_reg[15] = 1

\* C11 as stated: ShiftRight and ShiftLeft leave register VY unchanged, for
\* every register pair X, Y in 0..15.
C11_ShiftKeepsSourceAsStated ==
  [][(Executed("ShiftRight") \/ Executed("ShiftLeft"))
       => v_reg'[inst'.vy] = v_reg[inst'.vy]]_vars

\* C11 amended: ShiftRight and ShiftLeft leave register VY unchanged for
\* every register pair X, Y in 0..15 with Y different from X and from 0xF
\* (VX receives the shifted value and VF the shifted-out bit).
C11_ShiftKeepsSource ==
  [][((Executed("ShiftRight") \/ Executed("ShiftLeft"))
        /\ inst'.vy # inst'.vx /\ inst'.vy # 15)
       => v_reg'[inst'.vy] = v_reg[inst'.vy]]_vars

\* a ShiftRight of VY = 255 into another register: VY still holds 255
C11_Witness ==
  /\ inst.op = "ShiftRight"
  /\ result.kind = "Ok"
  /\ inst.vx # inst.vy
  /\ inst.vy # 15
  /\ inst.vx # 15
  /\ v_reg[inst.vy] = 255
  /\ v_reg[inst.vx] = 127
  /\ v_reg[15] = 1

\* the step is a call of cycle that fetched a word
CycleFetched == result'.kind # "None" /\ ~get_instruction(Self).panic

\* the word at pc
WordAtPc == get_instruction(Self).word

\* the words C12 lists
Unmapped(w) ==
  LET family == w \div 4096
      n == w % 16
      nn == w % 256
  IN  \/ family \in {5, 9} /\ n # 0
      \/ family = 8 /\ n \notin (0..7) \cup {14}
      \/ family = 14 /\ nn \notin {158, 161}
      \/ family = 15 /\ nn \notin {7, 10, 21, 24, 30, 41, 51, 85, 101}

\* C12: a cycle that fetches a word 5XY? or 9XY? with a nonzero low nibble,
\* 8XY? with a low nibble other than 0-7 and E, EX?? with a low byte other
\* than 9E and A1, or FX?? with a low byte other than 07, 0A, 15, 18, 1E,
\* 29, 33, 55, 65 returns the decode error UnknownInstruction carrying the
\* word.
C12_UnmappedWordsRejected ==
  [][(CycleFetched /\ Unmapped(WordAtPc))
       => result' = DecodeErrorResult([kind |-> "UnknownInstruction",
                                       inst |-> WordAtPc])]_vars

\* the variant and operands the doc comments of Inst give for a word;
\* "none" for a word they do not list
DocumentedInst(w) ==
  LET family == w \div 4096
      vx == (w \div 256) % 16
      vy == (w \div 16) % 16
      n == w % 16
      nn == w % 256
      nnn == w % 4096
      R(op) == [op |-> op, vx |-> vx, vy |-> vy]
      X(op) == [op |-> op, vx |-> vx]
      V(op) == [op |-> op, vx |-> vx, nn |-> nn]
      A(op) == [op |-> op, nnn |-> nnn]
  IN  CASE w = 224 -> [op |-> "Clear"]
        [] w = 238 -> [op |-> "Return"]
        [] family = 0 /\ w \notin {224, 238} -> A("Exe")
        [] family = 1 -> A("Jump")
        [] family = 2 -> A("Call")
        [] family = 3 -> V("SkipEqualValue")
        [] family = 4 -> V("SkipNotEqualValue")
        [] family = 5 /\ n = 0 -> R("SkipEqualRegister")
        [] family = 6 -> V("LoadValue")
        [] family = 7 -> V("AddValue")
        [] family = 8 /\ n = 0 -> R("LoadRegister")
        [] family = 8 /\ n = 1 -> R("Or")
        [] family = 8 /\ n = 2 -> R("And")
        [] family = 8 /\ n = 3 -> R("Xor")
        [] family = 8 /\ n = 4 -> R("AddRegister")
        [] family = 8 /\ n = 5 -> R("SubRegisterXY")
        [] family = 8 /\ n = 6 -> R("ShiftRight")
        [] family = 8 /\ n = 7 -> R("SubRegisterYX")
        [] family = 8 /\ n = 14 -> R("ShiftLeft")
        [] family = 9 /\ n = 0 -> R("SkipNotEqualRegister")
        [] family = 10 -> A("LoadIntoI")
        [] family = 11 -> A("JumpAdd")
        [] family = 12 -> V("LoadRandom")
        [] family = 13 -> [op |-> "DrawSprite", vx |-> vx, vy |-> vy, n |-> n]
        [] family = 14 /\ nn = 158 -> X("SkipIfKey")
        [] family = 14 /\ nn = 161 -> X("SkipIfNotKey")
        [] family = 15 /\ nn = 7 -> X("LoadDelay")
        [] family = 15 /\ nn = 10 -> X("WaitForKey")
        [] family = 15 /\ nn = 21 -> X("SetDelay")
        [] family = 15 /\ nn = 24 -> X("SetSound")
        [] family = 15 /\ nn = 30 -> X("AddToI")
        [] family = 15 /\ nn = 41 -> X("LoadDigitSpriteAddrIntoI")
        [] family = 15 /\ nn = 51 -> X("StoreBCD")
        [] family = 15 /\ nn = 85 -> X("StoreRegisters")
        [] family = 15 /\ nn = 101 -> X("LoadRegisters")
        [] OTHER -> [op |-> "none"]

\* C13: for every one of the 65536 words, decode returns exactly one of an
\* instruction and UnknownInstruction carrying the word; each documented
\* encoding yields its variant with vx = bits 8-11, vy = bits 4-7, n = low
\* nibble, nn = low byte, nnn = low 12 bits; every word 0NNN other than 00E0
\* and 00EE decodes to Exe carrying nnn.
C13_DecodeTotal ==
  [][CycleFetched
       => /\ \/ /\ result' = DecodeErrorResult([kind |-> "UnknownInstruction",
                                                inst |-> WordAtPc])
                /\ inst' = NoInst
             \/ /\ result'.kind # "DecodeError"
                /\ inst' # NoInst
          /\ DocumentedInst(WordAtPc).op # "none" => inst' = DocumentedInst(WordAtPc)
          /\ (WordAtPc < 4096 /\ WordAtPc \notin {224, 238})
               => inst' = [op |-> "Exe", nnn |-> WordAtPc]]_vars

\* the word DABC was decoded to DrawSprite{vx: 0xA, vy: 0xB, n: 0xC}
C13_Witness ==
  /\ inst = [op |-> "DrawSprite", vx |-> 10, vy |-> 11, n |-> 12]
  /\ result.kind = "Ok"
  /\ pc = PROGRAM_OFFSET_BYTES + 2

\* C14: a cycle that fetches a word 0NNN other than 00E0 and 00EE returns
\* ExecuteError::UnknownMachineSubroutine{nnn} with nnn the low 12 bits of
\* the word.
C14_MachineSubroutineFails ==
  [][(CycleFetched /\ WordAtPc < 4096 /\ WordAtPc \notin {224, 238})
       => result' = ExecuteErrorResult([kind |-> "UnknownMachineSubroutine",
                                        nnn |-> WordAtPc % 4096])]_vars

\* the word 0FFF was fetched
C14_Witness ==
  /\ result = ExecuteErrorResult([kind |-> "UnknownMachineSubroutine", nnn |-> 4095])
  /\ inst = [op |-> "Exe", nnn |-> 4095]
  /\ pc = PROGRAM_OFFSET_BYTES

\* C15: update_timers decrements delay and sound each by exactly 1 when
\* nonzero and leaves a timer at 0 when it is 0, so that no timer goes below
\* 0 or wraps to 255; is_sound_playing is true exactly when sound >= 2.
C15_TimersCountDownToZero ==
  [][/\ result'.kind = "None"
          => /\ delay_timer' = IF delay_timer = 0 THEN 0 ELSE delay_timer - 1
             /\ sound_timer' = IF sound_timer = 0 THEN 0 ELSE sound_timer - 1
     /\ delay_timer' \in 0..255
     /\ sound_timer' \in 0..255
     /\ is_sound_playing(Self) <=> sound_timer \in 2..255
     /\ is_sound_playing(Self)' <=> sound_timer' \in 2..255]_vars

\* a tick found the delay timer at 0 and the sound timer at 3: the delay
\* timer ran out before SetSound was executed
C15_Witness ==
  /\ result.kind = "None"
  /\ delay_timer = 0
  /\ sound_timer = 2
  /\ is_sound_playing(Self)
  /\ pc = PROGRAM_OFFSET_BYTES + 6

\* C16: a cycle, whether it succeeds or fails, leaves delay unchanged unless
\* it executes SetDelay (delay := VX) and leaves sound unchanged unless it
\* executes SetSound (sound := VX).
C16_CycleKeepsTimers ==
  [][result'.kind # "None"
       => /\ delay_timer' = IF Executed("SetDelay") THEN v_reg[inst'.vx]
                             ELSE delay_timer
          /\ sound_timer' = IF Executed("SetSound") THEN v_reg[inst'.vx]
                             ELSE sound_timer]_vars

\* LoadDelay read a running delay timer while the sound timer was running
C16_Witness ==
  /\ inst.op = "LoadDelay"
  /\ result.kind = "Ok"
  /\ delay_timer = 2
  /\ sound_timer = 3
  /\ v_reg[inst.vx] = 2

\* the blit as section 4.4 of the specification words it: the anchor
\* wrapped, the 8 x rows.len() rectangle clipped at the right and bottom
\* edges, each pixel XORed with its sprite bit
ReferenceBlit(old, x, y, rows) ==
  LET x0 == x % 64
      y0 == y % 32
      cells == {c \in (0..7) \X (0..(Len(rows) - 1)) :
                  x0 + c[1] < 64 /\ y0 + c[2] < 32}
      ones == {(y0 + c[2]) * 64 + x0 + c[1] :
                 c \in {d \in cells : (rows[d[2] + 1] \div Pow2(7 - d[1])) % 2 = 1}}
  IN  [screen |-> (old \ ones) \cup (ones \ old),
       collision |-> (ones \cap old) # {}]

\* the step is a cycle that fetched DrawSprite with 1 to 15 rows that lie
\* inside memory
DrawsSprite ==
  /\ CycleFetched
  /\ Fetched.op = "DrawSprite"
  /\ Fetched.n >= 1
  /\ i_reg + Fetched.n <= CHIP8_MEMORY_SIZE_BYTES

\* the rows DrawSprite at pc reads
RowsAtI == Chip8Memory_get_bytes(memory, i_reg, Fetched.n).bytes

\* C17: drawing a sprite on a cleared screen reports no collision, and
\* drawing the same sprite again at the same coordinates reports a collision
\* and returns every pixel to false.  "Non-empty" is read as: the first draw
\* lit a pixel.
C17_DrawTwice ==
  [][DrawsSprite
       => /\ screen = clear => (result' = OkResult /\ v_reg'[15] = 0)
          /\ (/\ screen # clear
              /\ \E oc \in BOOLEAN :
                   LET first == draw_sprite(clear, v_reg[Fetched.vx],
                                            v_reg[Fetched.vy], RowsAtI, oc)
                   IN  ~first.panic /\ first.screen = screen)
               => (result' = OkResult /\ v_reg'[15] = 1 /\ screen' = clear)]_vars

\* C18: draw_sprite(x, y, rows) equals the reference blit for every anchor
\* and every sprite of 1 to 15 rows: the pixels of the clipped rectangle
\* become old XOR sprite bit, every other pixel is unchanged, the result is
\* true exactly when a lit pixel met a sprite bit of 1, and the call does
\* not abort.
C18_DrawIsReferenceBlit ==
  [][DrawsSprite
       => LET ref == ReferenceBlit(screen, v_reg[Fetched.vx], v_reg[Fetched.vy],
                                   RowsAtI)
          IN  /\ result' = OkResult
              /\ screen' = ref.screen
              /\ v_reg'[15] = IF ref.collision THEN 1 ELSE 0]_vars

\* C19: get_pixel and set_pixel called with x >= 64 or y >= 32 do not abort
\* (they reject the coordinates with a typed error), and with x < 64 and
\* y < 32 they access the pixel at row-major index y * 64 + x.
C19_PixelAccessChecked ==
  \A x \in 0..255, y \in 0..255 :
    LET got == get_pixel(screen, x, y)
        lit == set_pixel(screen, x, y, TRUE)
        unlit == set_pixel(screen, x, y, FALSE)
    IN  /\ ~got.panic
        /\ ~lit.panic
        /\ ~unlit.panic
        /\ (x < 64 /\ y < 32)
             => /\ got.value = (y * 64 + x \in screen)
                /\ lit.screen = screen \cup {y * 64 + x}
                /\ unlit.screen = screen \ {y * 64 + x}

\* C20: DrawSprite returns ExecuteError::SpriteMemoryOverflow{index: I,
\* len: N} exactly when I + N > 4096; otherwise it blits the N bytes at
\* memory[I..I+N] at (VX, VY), sets VF to 1 if a set pixel was turned off and
\* to 0 otherwise, and leaves memory and I unchanged.
C20_DrawSpriteChecksMemory ==
  [][(CycleFetched /\ Fetched.op = "DrawSprite")
       => IF i_reg + Fetched.n > CHIP8_MEMORY_SIZE_BYTES
            THEN result' = ExecuteErrorResult([kind |-> "SpriteMemoryOverflow",
                                               index |-> i_reg, len |-> Fetched.n])
            ELSE LET ref == ReferenceBlit(screen, v_reg[Fetched.vx],
                                          v_reg[Fetched.vy], RowsAtI)
                 IN  /\ result' = OkResult
                     /\ screen' = ref.screen
                     /\ v_reg'[15] = IF ref.collision THEN 1 ELSE 0
                     /\ memory' = memory
                     /\ i_reg' = i_reg]_vars

\* the machine is as Chip8::new leaves it apart from memory: no cycle has
\* changed it
Constructed ==
  /\ screen = clear
  /\ v_reg = [r \in 0..15 |-> 0]
  /\ i_reg = 0
  /\ stack = [k \in 0..(STACK_SIZE - 1) |-> 0]
  /\ stack_ptr = 0
  /\ pc = PROGRAM_OFFSET_BYTES
  /\ delay_timer = 0
  /\ sound_timer = 0
  /\ inst = NoInst
  /\ result.kind \in {"None", "Panic"}

\* C21: after construction, memory bytes 0x000..0x04F hold the 80-byte font
\* table, bytes 0x200..0x200+len(program)-1 hold the program verbatim, and
\* every other byte is 0.
C21_MemoryAfterConstruct ==
  (Constructed /\ result.kind = "None")
    => \A a \in 0..(CHIP8_MEMORY_SIZE_BYTES - 1) :
         Chip8Memory_get(memory, a).value =
           IF a < 80 THEN DEFAULT_SPRITES[a + 1]
           ELSE IF a >= 512 /\ a < 512 + Len(program) THEN program[a - 511]
           ELSE 0

\* C22: construction fails exactly when len(program) > 3584; a program of
\* exactly 3584 bytes is accepted and fills memory up to address 0xFFF.
C22_ConstructFailsWhenTooLong ==
  Constructed
    => /\ result.kind = "Panic" <=> Len(program) > 3584
       /\ Len(program) = 3584
            => \A a \in 512..4095 :
                 Chip8Memory_get(memory, a).value = program[a - 511]

\* a program of exactly 3584 bytes was accepted; its last byte is at 0xFFF
C22_Witness ==
  /\ Constructed
  /\ result.kind = "None"
  /\ Len(program) = 3584
  /\ program[3584] = 255
  /\ Chip8Memory_get(memory, 4095).value = 255

\* C23: LoadDigitSpriteAddrIntoI sets I to the address of the glyph of the
\* hexadecimal digit held in VX: font base + 5 * value of VX.
C23_LoadDigitAddress ==
  [][(Executed("LoadDigitSpriteAddrIntoI") /\ v_reg[inst'.vx] <= 15)
       => i_reg' = SPRITES_OFFSET_BYTES + 5 * v_reg[inst'.vx]]_vars

\* C24: LoadRandom sets VX to r AND NN for a generated byte r: VX never has
\* a bit set outside NN, and with NN = 0xFF more than one value of VX can
\* result.
C24_LoadRandom ==
  [][(CycleFetched /\ Fetched.op = "LoadRandom")
       => /\ result' = OkResult
          /\ BitOp("and", v_reg'[Fetched.vx], 255 - Fetched.nn, 8) = 0
          /\ Fetched.nn = 255
               => Cardinality({v \in 0..255 :
                                 ENABLED (Cycle /\ v_reg'[Fetched.vx] = v)}) > 1]_vars

\* the memory after the step is the memory before it with bytes written
\* at I, I+1 and I+2
WritesThreeAtI(b0, b1, b2) ==
  \A a \in DOMAIN memory \cup DOMAIN memory' \cup (i_reg..(i_reg + 2)) :
    Chip8Memory_get(memory', a).value =
      CASE a = i_reg -> b0
        [] a = i_reg + 1 -> b1
        [] a = i_reg + 2 -> b2
        [] OTHER -> Chip8Memory_get(memory, a).value

\* C25 as stated: StoreBCD writes the hundreds, tens and ones digits of VX to
\* memory[I], memory[I+1], memory[I+2] and leaves I, every register and every
\* other memory byte unchanged, whatever I is.
C25_StoreBCDAsStated ==
  [][(CycleFetched /\ Fetched.op = "StoreBCD")
       => LET value == v_reg[Fetched.vx]
          IN  /\ result' = OkResult
              /\ WritesThreeAtI(value \div 100, (value \div 10) % 10, value % 10)
              /\ i_reg' = i_reg
              /\ v_reg' = v_reg]_vars

\* C25 amended: when I + 2 <= 0xFFF, StoreBCD writes the hundreds, tens and
\* ones digits of VX to memory[I], memory[I+1], memory[I+2] and leaves I,
\* every register and every other memory byte unchanged.
C25_StoreBCD ==
  [][(CycleFetched /\ Fetched.op = "StoreBCD"
        /\ i_reg + 2 < CHIP8_MEMORY_SIZE_BYTES)
       => LET value == v_reg[Fetched.vx]
          IN  /\ result' = OkResult
              /\ WritesThreeAtI(value \div 100, (value \div 10) % 10, value % 10)
              /\ i_reg' = i_reg
              /\ v_reg' = v_reg]_vars

\* 254 was stored as 2, 5, 4 in the last three bytes of memory
C25_Witness ==
  /\ inst.op = "StoreBCD"
  /\ result.kind = "Ok"
  /\ v_reg[inst.vx] = 254
  /\ i_reg = 4093
  /\ Chip8Memory_get(memory, 4093).value = 2
  /\ Chip8Memory_get(memory, 4094).value = 5
  /\ Chip8Memory_get(memory, 4095).value = 4

\* C26 as stated: StoreRegisters{X} copies V0..VX to memory[I..I+X] and
\* LoadRegisters{X} copies memory[I..I+X] into V0..VX, for every X in 0..15
\* and whatever I is; afterwards I is old I + X + 1 and registers above VX
\* are unchanged; a store followed by resetting I and a load restores V0..VX
\* (in the programs of BlockSpec the values first loaded into V0 and V1,
\* bytes 2 and 4 of the program).
C26_BlockCopyAsStated ==
  [][(CycleFetched /\ Fetched.op \in {"StoreRegisters", "LoadRegisters"})
       => /\ Fetched.op = "StoreRegisters"
               => /\ result' = OkResult
                  /\ \A a \in DOMAIN memory \cup DOMAIN memory'
                                \cup (i_reg..(i_reg + Fetched.vx)) :
                       Chip8Memory_get(memory', a).value =
                         IF a >= i_reg /\ a <= i_reg + Fetched.vx
                           THEN v_reg[a - i_reg]
                           ELSE Chip8Memory_get(memory, a).value
                  /\ v_reg' = v_reg
                  /\ i_reg' = i_reg + Fetched.vx + 1
          /\ Fetched.op = "LoadRegisters"
               => /\ result' = OkResult
                  /\ \A k \in 0..15 :
                       v_reg'[k] = IF k <= Fetched.vx
                                     THEN Chip8Memory_get(memory, i_reg + k).value
                                     ELSE v_reg[k]
                  /\ memory' = memory
                  /\ i_reg' = i_reg + Fetched.vx + 1
                  /\ v_reg'[0] = program[2]
                  /\ Fetched.vx >= 1 => v_reg'[1] = program[4]]_vars

\* C26 amended: the same, when the block lies inside memory: I + X <= 0xFFF.
C26_BlockCopy ==
  [][(CycleFetched /\ Fetched.op \in {"StoreRegisters", "LoadRegisters"}
        /\ i_reg + Fetched.vx < CHIP8_MEMORY_SIZE_BYTES)
       => /\ Fetched.op = "StoreRegisters"
               => /\ result' = OkResult
                  /\ \A a \in DOMAIN memory \cup DOMAIN memory'
                                \cup (i_reg..(i_reg + Fetched.vx)) :
                       Chip8Memory_get(memory', a).value =
                         IF a >= i_reg /\ a <= i_reg + Fetched.vx
                           THEN v_reg[a - i_reg]
                           ELSE Chip8Memory_get(memory, a).value
                  /\ v_reg' = v_reg
                  /\ i_reg' = i_reg + Fetched.vx + 1
          /\ Fetched.op = "LoadRegisters"
               => /\ result' = OkResult
                  /\ \A k \in 0..15 :
                       v_reg'[k] = IF k <= Fetched.vx
                                     THEN Chip8Memory_get(memory, i_reg + k).value
                                     ELSE v_reg[k]
                  /\ memory' = memory
                  /\ i_reg' = i_reg + Fetched.vx + 1
                  /\ v_reg'[0] = program[2]
                  /\ Fetched.vx >= 1 => v_reg'[1] = program[4]]_vars

\* V0..VF were stored in the last 16 bytes of memory, V0 and V1 were
\* overwritten, and the load brought them back
C26_Witness ==
  /\ inst = [op |-> "LoadRegisters", vx |-> 15]
  /\ result.kind = "Ok"
  /\ i_reg = CHIP8_MEMORY_SIZE_BYTES
  /\ v_reg[0] = 255
  /\ v_reg[1] = 128
  /\ Chip8Memory_get(memory, CHIP8_MEMORY_SIZE_BYTES - 16).value = 255

\* C27 as stated: in a successful cycle a conditional skip advances pc by 4
\* when its condition holds and by 2 otherwise, the key skips testing the
\* current snapshot at the index held in VX; Jump and Call set pc to nnn and
\* JumpAdd to nnn + V0; WaitForKey stays or advances by 2; every other
\* instruction advances pc by exactly 2.
C27_PcRuleAsStated ==
  [][(result'.kind = "Ok")
       => LET i == inst'
              taken(c) == pc + (IF c THEN 4 ELSE 2)
          IN  pc' =
                CASE i.op = "SkipEqualValue" -> taken(v_reg[i.vx] = i.nn)
                  [] i.op = "SkipNotEqualValue" -> taken(v_reg[i.vx] # i.nn)
                  [] i.op = "SkipEqualRegister" -> taken(v_reg[i.vx] = v_reg[i.vy])
                  [] i.op = "SkipNotEqualRegister" -> taken(v_reg[i.vx] # v_reg[i.vy])
                  [] i.op = "SkipIfKey" -> taken(keyboard_state'[v_reg[i.vx]])
                  [] i.op = "SkipIfNotKey" -> taken(~keyboard_state'[v_reg[i.vx]])
                  [] i.op \in {"Jump", "Call"} -> i.nnn
                  [] i.op = "JumpAdd" -> i.nnn + v_reg[0]
                  [] i.op = "WaitForKey" ->
                       IF FallingEdges(keyboard_state', previous_keyboard_state') = {}
                         THEN pc ELSE pc + 2
                  [] OTHER -> pc + 2]_vars

\* C27 amended: the same, except that Return sets pc to the popped address
\* plus 2.
C27_PcRule ==
  [][(result'.kind = "Ok")
       => LET i == inst'
              taken(c) == pc + (IF c THEN 4 ELSE 2)
          IN  pc' =
                CASE i.op = "SkipEqualValue" -> taken(v_reg[i.vx] = i.nn)
                  [] i.op = "SkipNotEqualValue" -> taken(v_reg[i.vx] # i.nn)
                  [] i.op = "SkipEqualRegister" -> taken(v_reg[i.vx] = v_reg[i.vy])
                  [] i.op = "SkipNotEqualRegister" -> taken(v_reg[i.vx] # v_reg[i.vy])
                  [] i.op = "SkipIfKey" -> taken(keyboard_state'[v_reg[i.vx]])
                  [] i.op = "SkipIfNotKey" -> taken(~keyboard_state'[v_reg[i.vx]])
                  [] i.op \in {"Jump", "Call"} -> i.nnn
                  [] i.op = "JumpAdd" -> i.nnn + v_reg[0]
                  [] i.op = "WaitForKey" ->
                       IF FallingEdges(keyboard_state', previous_keyboard_state') = {}
                         THEN pc ELSE pc + 2
                  [] i.op = "Return" -> stack[stack_ptr - 1] + 2
                  [] OTHER -> pc + 2]_vars

\* SkipIfKey skipped on a key that is down now and was up in the previous
\* snapshot
C27_Witness ==
  /\ inst.op = "SkipIfKey"
  /\ result.kind = "Ok"
  /\ keyboard_state[v_reg[inst.vx]]
  /\ ~previous_keyboard_state[v_reg[inst.vx]]
  /\ pc = PROGRAM_OFFSET_BYTES + 6

\* C28: in every reachable state the stack pointer is between 0 and 12
\* inclusive; it changes only by +1 on a successful Call and by -1 on a
\* successful Return; stack entries below the stack pointer are changed only
\* by the Call that pushed them.
C28_StackDiscipline ==
  [][/\ stack_ptr \in 0..STACK_SIZE
     /\ stack_ptr' \in 0..STACK_SIZE
     /\ stack_ptr' = stack_ptr + (CASE Executed("Call") -> 1
                                    [] Executed("Return") -> -1
                                    [] OTHER -> 0)
     /\ \A k \in 0..(stack_ptr - 1) : stack'[k] = stack[k]
     /\ \A k \in 0..(STACK_SIZE - 1) :
          stack'[k] # stack[k] => (Executed("Call") /\ k = stack_ptr)]_vars

\* a Call was attempted with the stack full
C28_Witness ==
  /\ inst.op = "Call"
  /\ result.kind = "Panic"
  /\ stack_ptr = STACK_SIZE
  /\ stack[STACK_SIZE - 1] # 0

\* every executed Jump and Call has an even nnn and every executed JumpAdd
\* an even nnn + V0
JumpsAreEven ==
  /\ (Executed("Jump") \/ Executed("Call")) => inst'.nnn % 2 = 0
  /\ Executed("JumpAdd") => (inst'.nnn + v_reg[0]) % 2 = 0

\* pc and the return addresses on the stack are even
EvenAligned ==
  /\ pc % 2 = 0
  /\ \A k \in 0..(stack_ptr - 1) : stack[k] % 2 = 0

\* C29: the program counter starts at 0x200 and is even in every reachable
\* state, provided every executed Jump and Call has an even nnn and every
\* executed JumpAdd has an even nnn + V0.  Stated as the induction it rests
\* on: pc starts at 0x200 with the stack empty, and from a state with pc and
\* the stacked return addresses even, a step whose jump is even leads to
\* such a state.
C29_PcStaysEven ==
  /\ pc = PROGRAM_OFFSET_BYTES
  /\ stack_ptr = 0
  /\ [][(EvenAligned /\ JumpsAreEven) => EvenAligned']_vars

\* JumpAdd{nnn: 0xFFF} with V0 = 1 was executed: an odd nnn, an even target
C29_Witness ==
  /\ inst = [op |-> "JumpAdd", nnn |-> 4095]
  /\ result.kind = "Ok"
  /\ v_reg[0] = 1
  /\ pc = 4096

\* the step is the update_timers call number `k` after a SetSound that stored
\* `v`, with no SetSound in between, and k is below the bound of the count
TickAfterSetSound(v, k) ==
  /\ tone.set
  /\ tone' = [tone EXCEPT !.ticks = k]
  /\ tone.ticks = k - 1
  /\ tone.v = v
  /\ result'.kind = "None"

PlayingNext == is_sound_playing(Self)'

ToneStepsAsStated ==
  \A v \in 0..255, k \in 1..MaxTicks :
    TickAfterSetSound(v, k) =>
      (PlayingNext <=> k <= (IF v >= 1 THEN v - 1 ELSE 0))

ToneSteps ==
  \A v \in 0..255, k \in 1..MaxTicks :
    TickAfterSetSound(v, k) =>
      (PlayingNext <=> k <= (IF v >= 2 THEN v - 2 ELSE 0))

\* C30 as stated: after a SetSound that stored v, with no SetSound since,
\* is_sound_playing is true after each of the next max(v - 1, 0) calls of
\* update_timers and false after every later one.
C30_ToneLengthAsStated == [][ToneStepsAsStated]_vars

\* C30: after a SetSound that stored v, with no SetSound since,
\* is_sound_playing is true after each of the next max(v - 2, 0) calls of
\* update_timers and false after every later one; a SetSound that stored 1
\* leaves no tone; and while the host keeps calling update_timers the tone
\* eventually stops for good.
C30_ToneLength ==
  /\ [][ToneSteps]_vars
  /\ [][Executed("SetSound") /\ v_reg[inst'.vx] = 1 => ~PlayingNext]_vars
  /\ <>[](~is_sound_playing(Self))

\* a SetSound stored 3, and the second update_timers call since left the
\* sound timer at 1
C30_Witness ==
  /\ tone = [set |-> TRUE, v |-> 3, ticks |-> 2]
  /\ sound_timer = 1
  /\ result.kind = "None"

\* C31: memory is mutated only by StoreBCD and StoreRegisters: a cycle that
\* executes any other instruction, and every update_timers call, leaves all
\* 4096 bytes as they were.
C31_MemoryFrame ==
  [][memory' # memory
       => /\ result'.kind # "None"
          /\ inst'.op \in {"StoreBCD", "StoreRegisters"}]_vars

\* a LoadRegisters at a block inside memory has run and memory is still what
\* Chip8::new made of the program
C31_Witness ==
  /\ inst.op = "LoadRegisters"
  /\ result.kind = "Ok"
  /\ memory = Chip8Memory_new(program).memory

RegisterOnlyOps == {"LoadValue", "AddValue", "LoadRegister", "Or", "And", "Xor"}

\* C32: LoadValue, AddValue, LoadRegister, Or, And and Xor change only
\* register VX and pc, which advances by 2: every other register, VF included
\* unless X = 0xF, is unchanged, AddValue leaves (old VX + NN) mod 256 in VX,
\* and I, the stack, the timers, memory and the framebuffer are unchanged.
C32_RegisterOnly ==
  [][(inst'.op \in RegisterOnlyOps /\ result'.kind # "None")
       => /\ result'.kind = "Ok"
          /\ pc' = pc + 2
          /\ \A r \in 0..15 : r # inst'.vx => v_reg'[r] = v_reg[r]
          /\ inst'.op = "AddValue"
               => v_reg'[inst'.vx] = (v_reg[inst'.vx] + inst'.nn) % 256
          /\ UNCHANGED <<i_reg, stack, stack_ptr, delay_timer, sound_timer,
                         memory, screen>>]_vars

\* an AddValue that wrapped past 255 in a register other than VF, and VF is
\* still 0
C32_Witness ==
  /\ inst.op = "AddValue"
  /\ result.kind = "Ok"
  /\ inst.vx # 15
  /\ inst.nn = 255
  /\ v_reg[inst.vx] = 254
  /\ v_reg[15] = 0

\* C33: when several keys have a falling edge in the same cycle, WaitForKey
\* stores the lowest of them in VX; VX depends on the two snapshots alone.
C33_LowestReleasedKey ==
  [][(inst'.op = "WaitForKey" /\ result'.kind # "None"
        /\ Cardinality(FallingEdges(keyboard_state', previous_keyboard_state')) >= 2)
       => /\ result'.kind = "Ok"
          /\ v_reg'[inst'.vx] =
               Min(FallingEdges(keyboard_state', previous_keyboard_state'))]_vars

\* a WaitForKey that saw keys 8 and 15 released in the same cycle
C33_Witness ==
  /\ inst.op = "WaitForKey"
  /\ result.kind = "Ok"
  /\ FallingEdges(keyboard_state, previous_keyboard_state) = {8, 15}
  /\ v_reg[inst.vx] = 8

\* the step is a cycle of the host loop
HostCycleStep == host'.cycles = host.cycles + 1

\* the step is the update_timers call of the host loop
HostTimerStep == host'.steps = host.steps - 1

\* the keys down in the last step run and up in the current snapshot
ReleasedSinceLastStep ==
  {k \in 0..15 : host.done_keys[k] /\ ~host.keyboard_state[k]}

\* C34: in the host loop every step runs 30 cycles and then update_timers
\* once; the cycles of a step all receive the snapshot read by update and
\* previous_keyboard_state, which is replaced by the snapshot only at the end
\* of the step; so the keys with a falling edge in a cycle are those down in
\* the last step run and up in this one, in every cycle of this step and in
\* no later step, and a WaitForKey fetched in a step with a falling edge
\* completes.
C34_HostStep ==
  [][/\ HostTimerStep => host.cycles = CYCLES_PER_STEP /\ host'.cycles = 0
     /\ HostCycleStep
          => /\ host.cycles < CYCLES_PER_STEP
             /\ keyboard_state' = host.keyboard_state
             /\ previous_keyboard_state' = host.previous_keyboard_state
             /\ host'.keyboard_state = host.keyboard_state
             /\ FallingEdges(keyboard_state', previous_keyboard_state')
                  = ReleasedSinceLastStep
             /\ (inst'.op = "WaitForKey" /\ ReleasedSinceLastStep # {})
                  => result'.kind = "Ok" /\ pc' = pc + 2
     /\ host'.previous_keyboard_state # host.previous_keyboard_state
          => /\ HostTimerStep
             /\ host'.previous_keyboard_state = host.keyboard_state
     /\ host'.done_keys # host.done_keys => HostTimerStep]_vars

\* the second cycle of a step has completed the second of two WaitForKey on
\* the release of key 8 that completed the first
C34_Witness ==
  /\ host.cycles = 2
  /\ inst.op = "WaitForKey"
  /\ result.kind = "Ok"
  /\ pc = PROGRAM_OFFSET_BYTES + 4
  /\ v_reg[0] = 8
  /\ v_reg[1] = 8
  /\ host.done_keys[8]
  /\ ~host.keyboard_state[8]

====
